---- MODULE Spec2Model ----
(***************************************************************************)
(* Verification model of derat/home.                                       *)
(*                                                                         *)
(* Part 1: the collector's reporter (the version of collector/reporter.go  *)
(* with a backing file): producers calling reportSamples, the single       *)
(* processSamples goroutine, stop(), triggerRetryTimeout(), the retry      *)
(* timer goroutines, the backing file on disk and the server that receives *)
(* the POSTs.                                                              *)
(*                                                                         *)
(* Part 2: the App Engine summarizer (storage/summarize.go):               *)
(* GenerateSummaries, summarizeDay, DeleteSummarizedSamples over a         *)
(* datastore of samples, summaries and the SummaryState singleton.         *)
(*                                                                         *)
(* Samples of the reporter are identified by the order in which they were  *)
(* handed to reportSamples: sample i is the i-th sample ever enqueued.     *)
(***************************************************************************)
EXTENDS Integers, Sequences, FiniteSets, TLC

(***************************************************************************)
(* Bounds of the reporter model.                                           *)
(***************************************************************************)
\* Number of samples ever handed to reportSamples.
MaxSamples == 3

\* Number of POSTs that fail (transport error, timeout or non-200).
MaxFailures == 1

\* Number of backing-file writes that fail (os.Create/Encode/Rename error).
MaxWriteFailures == 1

\* Number of reporters created on the backing file after the first one
\* (process restarts).
MaxRestarts == 1

\* Number of triggerRetryTimeout calls made from outside the reporter.
MaxTriggers == 2

\* cfg.ReportBatchSize (10 by default, 3 in TestBatching); kept small here.
ReportBatchSize == 2

(***************************************************************************)
(* Program constants.                                                      *)
(***************************************************************************)
\* Capacity of the retryTimeout channel: make(chan bool, 2).
RetryTimeoutCap == 2

\* http.StatusOK, the status that line 178 compares with.
StatusOK == 200

\* PostForm returned an error (connection error or timeout): no status.
NoStatus == 0

\* newBackingFileSamples == nil ("var newBackingFileSamples []common.Sample").
\* 0 is never a sample id, so <<0>> is distinct from every queue.
NilSamples == <<0>>

VARIABLES
    \* --- fields of the reporter struct ---
    queuedSamples,          \* r.queuedSamples
    backingFileSamples,     \* r.backingFileSamples
    stopping,               \* r.stopping
    retryTimeout,           \* number of values buffered in r.retryTimeout
    mu,                     \* r.cond.L: "free" or "worker"
    \* --- the processSamples goroutine ---
    wPc,                    \* its position
    samples,                \* local "samples": unsent rest of the snapshot
    gotError,               \* local "gotError"
    newBackingFileSamples,  \* local "newBackingFileSamples"
    \* --- the retry timer goroutines (go func(ch chan bool) {...}) ---
    curTimer,               \* the timer of the latest failed POST is sleeping
    oldTimers,              \* sleeping timers of earlier failed POSTs
    \* --- the caller of stop() ---
    stopPc,
    \* --- the disk ---
    fileExists,             \* cfg.BackingFile exists
    file,                   \* its contents
    fileStamp,              \* flips whenever a rename replaces the file
    \* --- the server ---
    firstSeen,              \* the samples it received, in order of first receipt
    lastPost,               \* the latest request: [d: payload, ok: answered 200,
                            \* status: of the response the client got]
    acked,                  \* the samples of requests it answered with 200
    postCount,              \* number of requests it received
    \* --- the environment ---
    nextId,                 \* samples enqueued so far
    calls,                  \* reportSamples calls so far
    failures,               \* failed POSTs so far
    writeFailures,          \* failed backing-file writes so far
    restarts,               \* reporters created after the first
    triggers,               \* triggerRetryTimeout calls so far
    \* --- observations used by the properties ---
    returned,               \* slice returned to the queue by the last failed
                            \* iteration, until the next POST
    observed,               \* r.queuedSamples as the worker saw it under the
                            \* mutex at lines 136-147 of its last iteration
    retryDue,               \* since the latest failed POST its timer expired
                            \* or the retry timeout was triggered
    stopWriteFailed,        \* the final write of this reporter failed
    stopWriteEverFailed,    \* the final write of some reporter failed
    \* --- the App Engine server ---
    location,               \* its time zone (main.go: var location)
    \* --- its datastore ---
    sampleEntities,         \* kind "Sample": set of [ts, sn, v]
    daySummaryEntities,     \* kind "DaySummary": set of [ts, sn, min, max, avg]
    hourSummaryEntities,    \* kind "HourSummary": the same
    lastFullDay,            \* SummaryState.LastFullDay; 0: zero time / no entity
    \* --- a GenerateSummaries call ---
    gsPc,                   \* its position
    partialDay,             \* local "partialDay"
    dayStart,               \* local "dayStart"; 0: zero time
    lfd,                    \* local "lfd": LastFullDay as read at line 60
    \* --- a DeleteSummarizedSamples call ---
    dlPc,                   \* its position
    keepDay,                \* local "keepDay"
    errors,                 \* local "errors"
    keys,                   \* local "keys"
    \* --- the environment of the server ---
    writes,                 \* WriteSamples calls so far
    storeErrors,            \* failed datastore calls so far
    \* --- a loop over samples that calls updateSummary ---
    sums,                   \* the map "sums": series -> summary
    it,                     \* the samples that the loop has not yet read
    \* --- history, kept only in the machines that ask for it ---
    recording,              \* what is kept: "none", "runs" or "puts"
    summarized,             \* the last GenerateSummaries calls, if they
                            \* returned nil and no sample changed since
    puts,                   \* the datastore.PutMulti calls of WriteSamples
    \* --- the report handler of the server ---
    request,                \* the request that handleReport got last
    response,               \* the HTTP status it was answered with
    \* --- a DoQuery call ---
    qp,                     \* the QueryParams
    results,                \* per line, the points that its query yields
    fetchers,               \* per line, the goroutine that reads them
    chans,                  \* per line, the channel to the merger
    merger,                 \* the mergeQueryData goroutine
    out,                    \* the channel "out" as writeQueryOutput sees it
    queryErr,               \* what DoQuery returned
    \* --- the alerts ---
    conds,                  \* the conditions of the configuration
    alertState,             \* the AlertState entity
    evaluation              \* the last EvaluateConds call and its outcome;
                            \* stored: the ids that its datastore.Get found

vars == <<queuedSamples, backingFileSamples, stopping, retryTimeout, mu,
          wPc, samples, gotError, newBackingFileSamples, curTimer, oldTimers,
          stopPc, fileExists, file, fileStamp, firstSeen, lastPost, acked,
          postCount, nextId, calls, failures, writeFailures, restarts,
          triggers, returned, observed, retryDue, stopWriteFailed,
          stopWriteEverFailed,
          sampleEntities, daySummaryEntities, hourSummaryEntities,
          lastFullDay, location, gsPc, partialDay, dayStart, lfd, dlPc,
          keepDay, errors, keys, writes, storeErrors, sums, it, recording,
          summarized, puts, request, response, qp, results, fetchers,
          chans, merger, out, queryErr, conds, alertState, evaluation>>

\* Everything that belongs to the collector's reporter.
reporterVars == <<queuedSamples, backingFileSamples, stopping, retryTimeout,
                  mu, wPc, samples, gotError, newBackingFileSamples, curTimer,
                  oldTimers, stopPc, fileExists, file, fileStamp, firstSeen,
                  lastPost, acked, postCount, nextId, calls, failures,
                  writeFailures, restarts, triggers, returned, observed, retryDue,
                  stopWriteFailed, stopWriteEverFailed>>

\* Everything that belongs to the App Engine server's storage.
storageVars == <<sampleEntities, daySummaryEntities, hourSummaryEntities,
                 lastFullDay, location, gsPc, partialDay, dayStart, lfd,
                 dlPc, keepDay, errors, keys, writes, storeErrors, sums, it,
                 recording, summarized, puts, request, response, qp,
                 results, fetchers, chans, merger, out, queryErr, conds,
                 alertState, evaluation>>

\* The summarizing loop on its own.
loopVars == <<sums, it>>

\* The HTTP handlers of the server.
reportVars == <<request, response>>

\* Everything but the handlers' own variables.
storeVars == <<queuedSamples, backingFileSamples, stopping, retryTimeout,
               mu, wPc, samples, gotError, newBackingFileSamples, curTimer,
               oldTimers, stopPc, fileExists, file, fileStamp, firstSeen,
               lastPost, acked, postCount, nextId, calls, failures,
               writeFailures, restarts, triggers, returned, observed, retryDue,
               stopWriteFailed, stopWriteEverFailed,
               sampleEntities, daySummaryEntities, hourSummaryEntities,
               lastFullDay, location, gsPc, partialDay, dayStart, lfd,
               dlPc, keepDay, errors, keys, writes, storeErrors, sums, it,
               recording, summarized, puts>>

\* A DoQuery call.
queryVars == <<qp, results, fetchers, chans, merger, out, queryErr>>

\* The alerts.
alertVars == <<conds, alertState, evaluation>>

handlerVars == <<reportVars, queryVars, alertVars>>

\* Everything but a DoQuery call's variables.
otherVars == <<storeVars, reportVars, alertVars>>

\* Groups used in UNCHANGED clauses.
diskVars == <<fileExists, file, fileStamp>>

serverVars == <<firstSeen, lastPost, acked, postCount>>

ghostFlags == <<stopWriteFailed, stopWriteEverFailed>>

envVars == <<nextId, calls, failures, writeFailures, restarts, triggers>>

timerVars == <<curTimer, oldTimers>>

(***************************************************************************)
(* Helpers.                                                                *)
(***************************************************************************)
Range(s) == {s[i] : i \in 1..Len(s)}

Min(a, b) == IF a < b THEN a ELSE b

\* Mutant: the slice is not advanced.
DropNothing(s, n) == s

\* s[n:]
Drop(s, n) == SubSeq(s, n + 1, Len(s))

\* s[:n]
Take(s, n) == SubSeq(s, 1, n)

\* The elements of s that are not in set, in the order of s.
Without(s, set) == SelectSeq(s, LAMBDA x : x \notin set)

\* The ids lo+1 .. lo+k in order: the samples of one reportSamples call.
NewSamples(lo, k) == [i \in 1..k |-> lo + i]

\* s is strictly ascending: enqueue order.
Ascending(s) == \A i \in 1..Len(s) : \A j \in 1..Len(s) : i < j => s[i] < s[j]

\* p is a prefix of s.
IsPrefix(p, s) == Len(p) <= Len(s) /\ Take(s, Len(p)) = p

(***************************************************************************)
(* newReporter (lines 48-69): the memory of a fresh reporter on the        *)
(* current disk state.  If the backing file exists it is read into both    *)
(* queuedSamples and backingFileSamples.                                   *)
(***************************************************************************)
LoadedSamples == IF fileExists THEN file ELSE <<>>

FreshReporter ==
    /\ queuedSamples' = LoadedSamples
    /\ backingFileSamples' = LoadedSamples
    /\ stopping' = FALSE
    /\ retryTimeout' = 0
    /\ mu' = "free"
    /\ wPc' = "notStarted"
    /\ samples' = <<>>
    /\ gotError' = FALSE
    /\ newBackingFileSamples' = NilSamples
    /\ curTimer' = FALSE
    /\ oldTimers' = 0
    /\ stopPc' = "idle"
    /\ returned' = <<>>
    /\ observed' = <<>>
    /\ retryDue' = TRUE
    /\ stopWriteFailed' = FALSE

\* The first reporter of a collector that has no backing file yet.
InitReporter ==
    /\ queuedSamples = <<>>
    /\ backingFileSamples = <<>>
    /\ stopping = FALSE
    /\ retryTimeout = 0
    /\ mu = "free"
    /\ wPc = "notStarted"
    /\ samples = <<>>
    /\ gotError = FALSE
    /\ newBackingFileSamples = NilSamples
    /\ curTimer = FALSE
    /\ oldTimers = 0
    /\ stopPc = "idle"
    /\ fileExists = FALSE
    /\ file = <<>>
    /\ fileStamp = 0
    /\ firstSeen = <<>>
    /\ lastPost = [d |-> <<>>, ok |-> FALSE, status |-> NoStatus]
    /\ acked = {}
    /\ postCount = 0
    /\ nextId = 0
    /\ calls = 0
    /\ failures = 0
    /\ writeFailures = 0
    /\ restarts = 0
    /\ triggers = 0
    /\ returned = <<>>
    /\ observed = <<>>
    /\ retryDue = TRUE
    /\ stopWriteFailed = FALSE
    /\ stopWriteEverFailed = FALSE

\* A later reporter created on the same backing file, after the previous
\* worker exited or the previous process died.
NewReporter ==
    /\ wPc \in {"exited", "dead"}
    /\ restarts < MaxRestarts
    /\ FreshReporter
    /\ restarts' = restarts + 1
    /\ UNCHANGED storageVars
    /\ UNCHANGED <<diskVars, serverVars, nextId, calls, failures,
                   writeFailures, triggers, stopWriteEverFailed>>

\* start() (lines 71-74): wg.Add(1); go r.processSamples()
Start ==
    /\ wPc = "notStarted"
    /\ wPc' = "wait"
    /\ UNCHANGED storageVars
    /\ UNCHANGED <<queuedSamples, backingFileSamples, stopping, retryTimeout,
                   mu, samples, gotError, newBackingFileSamples, timerVars,
                   stopPc, diskVars, serverVars, envVars, returned, observed, retryDue,
                   ghostFlags>>

(***************************************************************************)
(* reportSamples (lines 89-97): Lock; append; Unlock; Signal.  The call    *)
(* needs the mutex: while another goroutine holds it the call blocks.      *)
(***************************************************************************)
ReportSamples(k) ==
    /\ wPc # "dead"
    /\ mu = "free"
    /\ nextId + k <= MaxSamples
    /\ queuedSamples' = queuedSamples \o NewSamples(nextId, k)
    /\ nextId' = nextId + k
    /\ calls' = calls + 1
    /\ UNCHANGED storageVars
    /\ UNCHANGED <<backingFileSamples, stopping, retryTimeout, mu, wPc,
                   samples, gotError, newBackingFileSamples, timerVars,
                   stopPc, diskVars, serverVars, failures, writeFailures,
                   restarts, triggers, returned, observed, retryDue, ghostFlags>>

(***************************************************************************)
(* triggerRetryTimeout (lines 99-101): r.retryTimeout <- true; the send    *)
(* blocks while the channel is full.                                       *)
(***************************************************************************)
TriggerRetryTimeout ==
    /\ wPc \notin {"exited", "dead"}
    /\ triggers < MaxTriggers
    /\ retryTimeout < RetryTimeoutCap
    /\ retryTimeout' = retryTimeout + 1
    /\ triggers' = triggers + 1
    /\ retryDue' = TRUE
    /\ UNCHANGED storageVars
    /\ UNCHANGED <<queuedSamples, backingFileSamples, stopping, mu, wPc,
                   samples, gotError, newBackingFileSamples, timerVars,
                   stopPc, diskVars, serverVars, nextId, calls, failures,
                   writeFailures, restarts, returned, observed, ghostFlags>>

(***************************************************************************)
(* processSamples, top of the loop (lines 104-119).  cond.Wait() returns   *)
(* with the mutex held once the queue is non-empty or stopping is set.     *)
(***************************************************************************)
\* "if r.stopping": the worker keeps the mutex and goes on to the final write.
WorkerSeesStopping ==
    /\ wPc = "wait"
    /\ mu = "free"
    /\ stopping
    /\ mu' = "worker"
    /\ wPc' = "stopWrite"
    /\ UNCHANGED storageVars
    /\ UNCHANGED <<queuedSamples, backingFileSamples, stopping, retryTimeout,
                   samples, gotError, newBackingFileSamples, timerVars,
                   stopPc, diskVars, serverVars, envVars, returned, observed, retryDue,
                   ghostFlags>>

\* samples := r.queuedSamples; r.queuedSamples = make(...); Unlock;
\* gotError := false
WorkerTakeSamples ==
    /\ wPc = "wait"
    /\ mu = "free"
    /\ ~stopping
    /\ queuedSamples # <<>>
    /\ samples' = queuedSamples
    /\ queuedSamples' = <<>>
    /\ gotError' = FALSE
    /\ observed' = <<>>
    /\ wPc' = "send"
    /\ UNCHANGED storageVars
    /\ UNCHANGED <<backingFileSamples, stopping, retryTimeout, mu,
                   newBackingFileSamples, timerVars, stopPc, diskVars,
                   serverVars, envVars, returned, retryDue, ghostFlags>>

(***************************************************************************)
(* writeSamplesToBackingFile (lines 205-229) with a backing file           *)
(* configured: the samples go to "<file>.new", which is renamed over the   *)
(* file; only then is r.backingFileSamples updated.  On an error the file  *)
(* and r.backingFileSamples stay as they were.                             *)
(***************************************************************************)
WriteSamplesToBackingFile(s, writeOk) ==
    IF writeOk
      THEN /\ file' = s
           /\ fileExists' = TRUE
           /\ fileStamp' = 1 - fileStamp
           /\ backingFileSamples' = s
           /\ UNCHANGED writeFailures
      ELSE /\ writeFailures < MaxWriteFailures
           /\ writeFailures' = writeFailures + 1
           /\ UNCHANGED <<file, fileExists, fileStamp, backingFileSamples>>

(***************************************************************************)
(* The stopping branch (lines 109-116): the queue is written with the      *)
(* mutex held, then wg.Done() and return.  The mutex is not unlocked on    *)
(* this path.                                                              *)
(***************************************************************************)
\* Mutant: the final write repeats what the file is recorded to hold.
StoppingBranchSamplesStale == backingFileSamples

\* The argument of the final write.
StoppingBranchSamples == queuedSamples

WorkerStopWrite(writeOk) ==
    /\ wPc = "stopWrite"
    /\ WriteSamplesToBackingFile(StoppingBranchSamples, writeOk)
    /\ stopWriteFailed' = ~writeOk
    /\ stopWriteEverFailed' = (stopWriteEverFailed \/ ~writeOk)
    /\ wPc' = "exited"
    /\ UNCHANGED storageVars
    /\ UNCHANGED <<queuedSamples, stopping, retryTimeout, mu, samples,
                   gotError, newBackingFileSamples, timerVars, stopPc,
                   serverVars, nextId, calls, failures, restarts, triggers,
                   returned, observed, retryDue>>

(***************************************************************************)
(* The send loop (lines 123-134), one sendSamplesToServer call (lines      *)
(* 171-181) per step.  outcome "ok": the server answers 200.  "rejected":  *)
(* the server received the request but the client got another status or a  *)
(* timeout.  "unreached": the request never arrived (connection error).    *)
(***************************************************************************)
\* The statuses a server answers with (OK, No Content, Internal Server
\* Error).
Statuses == {StatusOK, 204, 500}

\* What PostForm comes back with: whether the request reached the server,
\* and the status of the response, if one came in time.
Responses ==
    {[reached |-> FALSE, status |-> NoStatus]}
        \cup [reached : {TRUE}, status : Statuses \cup {NoStatus}]

\* sendSamplesToServer returns nil (lines 175-180).
Sent(resp) == resp.status # NoStatus /\ resp.status = StatusOK

Outcome(resp) ==
    IF Sent(resp) THEN "ok"
    ELSE IF resp.reached THEN "rejected"
    ELSE "unreached"

\* Mutant: the whole snapshot goes into one request.
BatchLenUnbounded(s) == Len(s)

\* n := min(len(samples), ReportBatchSize)
BatchLen(s) == Min(Len(s), ReportBatchSize)

WorkerSend(resp) ==
    /\ wPc = "send"
    /\ samples # <<>>
    /\ LET n == BatchLen(samples)
           s == Take(samples, n)
           outcome == Outcome(resp)
       IN /\ IF outcome = "unreached"
               THEN UNCHANGED serverVars
               ELSE /\ firstSeen' = firstSeen \o Without(s, Range(firstSeen))
                    /\ lastPost' = [d |-> s, ok |-> (outcome = "ok"),
                                    status |-> resp.status]
                    /\ acked' = IF outcome = "ok" THEN acked \cup Range(s)
                                ELSE acked
                    /\ postCount' = postCount + 1
          /\ IF outcome = "ok"
               THEN /\ samples' = Drop(samples, n)
                    /\ wPc' = IF Drop(samples, n) = <<>> THEN "update"
                              ELSE "send"
                    /\ UNCHANGED <<gotError, failures, timerVars, retryDue>>
               ELSE /\ failures < MaxFailures
                    /\ failures' = failures + 1
                    /\ gotError' = TRUE
                    /\ wPc' = "update"
                    /\ retryDue' = FALSE
                    \* the timer of the previous failure is now an old one
                    /\ curTimer' = FALSE
                    /\ oldTimers' = oldTimers + (IF curTimer THEN 1 ELSE 0)
                    /\ UNCHANGED samples
    /\ returned' = <<>>
    /\ UNCHANGED storageVars
    /\ UNCHANGED <<queuedSamples, backingFileSamples, stopping, retryTimeout,
                   mu, newBackingFileSamples, stopPc, diskVars, nextId, calls,
                   writeFailures, restarts, triggers, observed, ghostFlags>>

(***************************************************************************)
(* Lines 136-147: under the mutex, return the unsent samples to the front  *)
(* of the queue and decide whether the backing file must be rewritten.     *)
(***************************************************************************)
\* Mutant: the unsent samples go behind the samples enqueued meanwhile.
ReturnToQueueAtBack(unsent, queue) == queue \o unsent

\* Mutant: the unsent samples are not returned at all.
ReturnToQueueDropped(unsent, queue) == queue

\* r.queuedSamples = append(samples, r.queuedSamples...)
ReturnToQueue(unsent, queue) == unsent \o queue

\* Mutant: the slices are compared by their lengths only.
NeedsRewriteByLength(onDisk, queue) == Len(onDisk) # Len(queue)

\* !reflect.DeepEqual(r.backingFileSamples, r.queuedSamples)
NeedsRewrite(onDisk, queue) == onDisk # queue

WorkerUpdateQueue ==
    /\ wPc = "update"
    /\ mu = "free"
    /\ LET q == IF gotError THEN ReturnToQueue(samples, queuedSamples)
                ELSE queuedSamples
       IN /\ queuedSamples' = q
          /\ newBackingFileSamples' =
                IF NeedsRewrite(backingFileSamples, q) THEN q ELSE NilSamples
    /\ returned' = IF gotError THEN samples ELSE <<>>
    /\ observed' = queuedSamples'
    \* the local slice is not read again
    /\ samples' = <<>>
    /\ wPc' = "write"
    /\ UNCHANGED storageVars
    /\ UNCHANGED <<backingFileSamples, stopping, retryTimeout, mu, gotError,
                   timerVars, stopPc, diskVars, serverVars, envVars, retryDue,
                   ghostFlags>>

(***************************************************************************)
(* Lines 149-161: rewrite the backing file if needed (without the mutex),  *)
(* then, after an error, start the retry timer and go to the select.       *)
(***************************************************************************)
WorkerWriteFile(writeOk) ==
    /\ wPc = "write"
    /\ IF newBackingFileSamples = NilSamples
         THEN /\ writeOk
              /\ UNCHANGED <<diskVars, backingFileSamples, writeFailures>>
         ELSE WriteSamplesToBackingFile(newBackingFileSamples, writeOk)
    /\ newBackingFileSamples' = NilSamples
    /\ IF gotError
         THEN /\ curTimer' = TRUE
              /\ wPc' = "sleep"
         ELSE /\ UNCHANGED curTimer
              /\ wPc' = "wait"
    /\ UNCHANGED storageVars
    /\ UNCHANGED <<queuedSamples, stopping, retryTimeout, mu, samples,
                   gotError, oldTimers, stopPc, serverVars, nextId, calls,
                   failures, restarts, triggers, returned, observed, retryDue,
                   ghostFlags>>

\* Lines 163-165: select { case <-r.retryTimeout: }
WorkerWake ==
    /\ wPc = "sleep"
    /\ retryTimeout > 0
    /\ retryTimeout' = retryTimeout - 1
    /\ wPc' = "wait"
    /\ UNCHANGED storageVars
    /\ UNCHANGED <<queuedSamples, backingFileSamples, stopping, mu, samples,
                   gotError, newBackingFileSamples, timerVars, stopPc,
                   diskVars, serverVars, envVars, returned, observed, retryDue,
                   ghostFlags>>

(***************************************************************************)
(* A retry timer goroutine (lines 158-161): time.Sleep(ReportRetryMs);     *)
(* ch <- true.  The send blocks while the channel is full.  current: the   *)
(* timer belongs to the latest failed POST.                                *)
(***************************************************************************)
TimerFire(current) ==
    /\ wPc # "dead"
    /\ retryTimeout < RetryTimeoutCap
    /\ retryTimeout' = retryTimeout + 1
    /\ IF current
         THEN /\ curTimer
              /\ curTimer' = FALSE
              /\ retryDue' = TRUE
              /\ UNCHANGED oldTimers
         ELSE /\ oldTimers > 0
              /\ oldTimers' = oldTimers - 1
              /\ UNCHANGED <<curTimer, retryDue>>
    /\ UNCHANGED storageVars
    /\ UNCHANGED <<queuedSamples, backingFileSamples, stopping, mu, wPc,
                   samples, gotError, newBackingFileSamples, stopPc,
                   diskVars, serverVars, envVars, returned, observed, ghostFlags>>

(***************************************************************************)
(* stop() (lines 76-83), one step per blocking point.                      *)
(***************************************************************************)
\* Lock; r.stopping = true; Unlock; Signal
StopSetStopping ==
    /\ stopPc = "idle"
    /\ wPc \notin {"notStarted", "exited", "dead"}
    /\ mu = "free"
    /\ stopping' = TRUE
    /\ stopPc' = "trigger"
    /\ UNCHANGED storageVars
    /\ UNCHANGED <<queuedSamples, backingFileSamples, retryTimeout, mu, wPc,
                   samples, gotError, newBackingFileSamples, timerVars,
                   diskVars, serverVars, envVars, returned, observed, retryDue,
                   ghostFlags>>

\* r.triggerRetryTimeout()
StopTrigger ==
    /\ stopPc = "trigger"
    /\ retryTimeout < RetryTimeoutCap
    /\ retryTimeout' = retryTimeout + 1
    /\ retryDue' = TRUE
    /\ stopPc' = "join"
    /\ UNCHANGED storageVars
    /\ UNCHANGED <<queuedSamples, backingFileSamples, stopping, mu, wPc,
                   samples, gotError, newBackingFileSamples, timerVars,
                   diskVars, serverVars, envVars, returned, observed, ghostFlags>>

\* r.wg.Wait() returns once the worker called wg.Done().
StopJoin ==
    /\ stopPc = "join"
    /\ wPc = "exited"
    /\ stopPc' = "returned"
    /\ UNCHANGED storageVars
    /\ UNCHANGED <<queuedSamples, backingFileSamples, stopping, retryTimeout,
                   mu, wPc, samples, gotError, newBackingFileSamples,
                   timerVars, diskVars, serverVars, envVars, returned, observed,
                   retryDue, ghostFlags>>

(***************************************************************************)
(* The collector process dies without stop(): its memory is gone, the disk *)
(* and what the server received stay.                                      *)
(***************************************************************************)
Crash ==
    /\ wPc \notin {"dead", "exited"}
    /\ queuedSamples' = <<>>
    /\ backingFileSamples' = <<>>
    /\ stopping' = FALSE
    /\ retryTimeout' = 0
    /\ mu' = "free"
    /\ wPc' = "dead"
    /\ samples' = <<>>
    /\ gotError' = FALSE
    /\ newBackingFileSamples' = NilSamples
    /\ curTimer' = FALSE
    /\ oldTimers' = 0
    /\ stopPc' = "idle"
    /\ returned' = <<>>
    /\ observed' = <<>>
    /\ retryDue' = TRUE
    /\ stopWriteFailed' = FALSE
    /\ UNCHANGED storageVars
    /\ UNCHANGED <<diskVars, serverVars, envVars, stopWriteEverFailed>>

(***************************************************************************)
(* Part 2: storage/summarize.go.                                           *)
(*                                                                         *)
(* Time is counted in ticks; an hour has TicksPerHour ticks and a day      *)
(* HoursPerDay hours.  A location is the offset, in ticks, of its local    *)
(* midnight from UTC midnight; every local day has DayTicks ticks (no      *)
(* daylight-saving transitions).  0 stands for the zero time.Time, which   *)
(* is earlier than every timestamp of a sample.                            *)
(***************************************************************************)
\* Scale of the clock.
TicksPerHour == 2

HoursPerDay == 2

DayTicks == TicksPerHour * HoursPerDay

\* Samples carry timestamps of the UTC days 1..MaxDay.
MaxDay == 2

\* Number of samples ever handed to WriteSamples.
MaxWrites == 2

\* Number of datastore calls that fail.
MaxStoreErrors == 3

\* Largest sample value.
MaxValue == 2

\* summaryDeleteBatchSize (300 in the source); kept small here.
summaryDeleteBatchSize == 2

\* Maximum number of consecutive delete errors before giving up.
maxSummaryDeleteErrors == 2

\* "source|name" of the series.
Series == {"a", "b"}

\* Locations: the local midnight is at UTC midnight, or half an hour later.
Locations == {0, 1}

\* t.AddDate(0, 0, n)
AddDays(t, n) == t + n * DayTicks

\* Timestamps of samples.
SampleTimes == DayTicks .. ((MaxDay + 1) * DayTicks - 1)

\* Values of the "now" argument of GenerateSummaries: one reading of the
\* clock per day, at the first tick that is past midnight in every location.
NowTimes == {AddDays(1, d) : d \in 1..(MaxDay + 1)}

\* Values of the "fullDayDelay" argument of GenerateSummaries.
FullDayDelays == {0, TicksPerHour}

\* Values of the "daysToKeep" argument of DeleteSummarizedSamples.
DaysToKeep == {0, 1, 2}

\* time.Date(lt.Year(), lt.Month(), lt.Day(), 0, 0, 0, 0, l) for lt = t.In(l)
StartOfDay(t, l) == t - ((t - l) % DayTicks)

\* time.Date(ut.Year(), ut.Month(), ut.Day(), ut.Hour(), 0, 0, 0, time.UTC)
StartOfHour(t) == t - (t % TicksPerHour)

(***************************************************************************)
(* float32 arithmetic.  A float32 holds 24 significant bits and every      *)
(* operation rounds its exact result to the nearest such number, ties to   *)
(* even.  The model keeps MantissaBits significant bits and counts a       *)
(* number in units of 2^-FracBits, so a number is the natural number of    *)
(* units it holds; values are not negative.                                *)
(***************************************************************************)
MantissaBits == 4

FracBits == MantissaBits + 3

\* 1.0
One == 2 ^ FracBits

\* The unit in the last place of num/den: the largest power of two u with
\* u * 2^(MantissaBits-1) <= num/den, and the smallest unit below that.
RECURSIVE Ulp(_, _, _)
Ulp(num, den, u) ==
    IF 2 * u * (2 ^ (MantissaBits - 1)) * den <= num
    THEN Ulp(num, den, 2 * u)
    ELSE u

\* num/den rounded to MantissaBits significant bits, ties to even.
Round(num, den) ==
    LET u == Ulp(num, den, 1)
        k == num \div (den * u)
        r == num - k * den * u
    IN IF 2 * r > den * u \/ (2 * r = den * u /\ k % 2 = 1)
       THEN (k + 1) * u
       ELSE k * u

\* float32(n) of an integer n.
Float32(n) == Round(n * One, 1)

\* a + b, a - b, a * b and a / b of float32 operands.
FAdd(a, b) == Round(a + b, 1)
FSub(a, b) == Round(a - b, 1)
FMul(a, b) == Round(a * b, One)
FDiv(a, b) == Round(a * One, b)

\* The larger of two numbers (math.Max); Min is math.Min.
Max(a, b) == IF a >= b THEN a ELSE b

\* The value of sums[key] for a key that the map does not hold.
NoSummary == [num |-> 0]

(***************************************************************************)
(* updateSummary (lines 170-192): the summary sums[key] after sample value *)
(* v of series sn is incorporated; sum is NoSummary when the map has no    *)
(* entry for the key.  Every caller passes the ts of the entry it created, *)
(* so the panic of line 174 is never taken.                                *)
(***************************************************************************)
updateSummary(sum, sn, v, ts) ==
    IF sum # NoSummary
    THEN LET n == sum.num + 1
         IN [sum EXCEPT
               !.num = n,
               !.min = Min(Float32(v), sum.min),
               !.max = Max(Float32(v), sum.max),
               !.avg = FAdd(FMul(sum.avg,
                                 FDiv(FSub(Float32(n), One), Float32(n))),
                            FMul(Float32(v), FDiv(One, Float32(n))))]
    ELSE [ts  |-> ts,
          sn  |-> sn,
          num |-> 1,
          min |-> Float32(v),
          max |-> Float32(v),
          avg |-> Float32(v)]

\* updateSummary applied to the values vs[i..Len(vs)] one after the other.
RECURSIVE UpdateAll(_, _, _)
UpdateAll(sum, vs, i) ==
    IF i > Len(vs) THEN sum
    ELSE UpdateAll(updateSummary(sum, "", vs[i], 0), vs, i + 1)

\* The summary of every sequence of values that the samples of one series
\* and one period can have, tabulated.
RECURSIVE Tabulated(_)
Tabulated(D) ==
    IF D = {} THEN <<>>
    ELSE LET vs == CHOOSE x \in D : TRUE
         IN (vs :> UpdateAll(NoSummary, vs, 1)) @@ Tabulated(D \ {vs})

Summarized ==
    Tabulated(UNION {[1..n -> 1..MaxValue] : n \in 1..MaxWrites})

\* The values of the samples S from the earliest on: the query of
\* summarizeDay is ordered by Timestamp (line 257), and the samples of one
\* series have distinct timestamps.
RECURSIVE ValuesInOrder(_)
ValuesInOrder(S) ==
    IF S = {} THEN <<>>
    ELSE LET s == CHOOSE x \in S : \A y \in S : x.ts <= y.ts
         IN <<s.v>> \o ValuesInOrder(S \ {s})

(***************************************************************************)
(* updateSummary (lines 170-192) applied to all samples S of one series    *)
(* and one period starting at ts.                                          *)
(***************************************************************************)
Summarize(ts, sn, S) ==
    [Summarized[ValuesInOrder(S)] EXCEPT !.ts = ts, !.sn = sn]

\* daySums of summarizeDay: one summary per series seen in the day.
DaySums(S, ds) ==
    {Summarize(ds, sn, {s \in S : s.sn = sn}) : sn \in {s.sn : s \in S}}

\* hourSums of summarizeDay: one summary per UTC hour and series.
HourSums(S) ==
    {Summarize(k[1], k[2],
               {s \in S : StartOfHour(s.ts) = k[1] /\ s.sn = k[2]}) :
        k \in {<<StartOfHour(s.ts), s.sn>> : s \in S}}

\* Mutant: a put that adds the new entities and replaces none.
PutEntitiesAdded(table, new) == table \cup new

\* datastore.PutMulti / Put on entities keyed by "ts|source|name": an
\* entity with the key of a new one is replaced.
PutEntities(table, new) ==
    {e \in table : \A n \in new : ~(n.ts = e.ts /\ n.sn = e.sn)} \cup new

\* The key of a sample entity (getSampleId).
KeyOf(s) == [ts |-> s.ts, sn |-> s.sn]

\* Mutant: the query of summarizeDay without its "Timestamp >=" filter.
QuerySamplesUnfiltered(queryStart) == sampleEntities

\* The query of summarizeDay (lines 257-260).
QuerySamples(queryStart) ==
    IF queryStart = 0 THEN sampleEntities
    ELSE {s \in sampleEntities : s.ts >= queryStart}

\* The day of the first sample of a non-empty query result (lines 274-280).
FirstDay(S, l) ==
    StartOfDay(CHOOSE t \in {s.ts : s \in S} : \A s \in S : t <= s.ts, l)

\* The samples of the day that a summarizeDay call would summarize now.
DaySamples ==
    LET S == QuerySamples(dayStart)
    IN IF S = {} THEN {}
       ELSE {s \in S : StartOfDay(s.ts, location) = FirstDay(S, location)}

\* Mutant: daySums seeded with the stored day summaries, so that a summary
\* counts the samples of the day once more whenever the day is summarized.
PendingDaySumsSeeded ==
    IF DaySamples = {} THEN {}
    ELSE {LET old == {e \in daySummaryEntities :
                         e.ts = s.ts /\ e.sn = s.sn}
          IN IF old = {} THEN s
             ELSE [s EXCEPT !.num = s.num + (CHOOSE e \in old : TRUE).num] :
            s \in DaySums(DaySamples,
                          FirstDay(QuerySamples(dayStart), location))}

\* The summaries that a summarizeDay call would hand to writeSummaries now.
PendingDaySums ==
    IF DaySamples = {} THEN {}
    ELSE DaySums(DaySamples, FirstDay(QuerySamples(dayStart), location))

PendingHourSums == HourSums(DaySamples)

\* Mutant: a day is marked when it does not start after partialDay.
NotAfter(t, u) == t <= u

\* dayStart.Before(partialDay) (line 77)
Before(t, u) == t < u

\* Mutant: the error of a summarizeDay call is ignored.
ReturnsErrorNever(ok) == FALSE

\* "if err != nil { return err }" (lines 69-70)
ReturnsError(ok) == ~ok

\* A datastore call fails.
StoreError ==
    /\ storeErrors < MaxStoreErrors
    /\ storeErrors' = storeErrors + 1

\* The locals of a GenerateSummaries call that returned.
GenerateSummariesReturn ==
    /\ gsPc' = "idle"
    /\ partialDay' = 0
    /\ dayStart' = 0

\* Lines 71-87 after a summarizeDay call that returned the day ds: the
\* day is marked if it is before partialDay, then the loop goes on with the
\* following day.
GenerateSummariesContinue(ds) ==
    /\ UNCHANGED partialDay
    /\ IF Before(ds, partialDay)
         THEN /\ gsPc' = "mark"
              /\ dayStart' = ds
         ELSE /\ gsPc' = "summarizeDay"
              /\ dayStart' = AddDays(ds, 1)

\* The locals of a DeleteSummarizedSamples call that returned.
DeleteSummarizedSamplesReturn ==
    /\ dlPc' = "idle"
    /\ keepDay' = 0
    /\ errors' = 0
    /\ keys' = {}

deleteVars == <<dlPc, keepDay, errors, keys>>

summaryVars == <<daySummaryEntities, hourSummaryEntities>>

InitDatastore(l) ==
    /\ location = l
    /\ sampleEntities = {}
    /\ daySummaryEntities = {}
    /\ hourSummaryEntities = {}
    /\ lastFullDay = 0
    /\ gsPc = "idle"
    /\ partialDay = 0
    /\ dayStart = 0
    /\ lfd = 0
    /\ dlPc = "idle"
    /\ keepDay = 0
    /\ errors = 0
    /\ keys = {}
    /\ writes = 0
    /\ storeErrors = 0

\* No request has been handled yet.
NoRequest == [method |-> ""]

\* No query has been planned or run.
NoQuery == [Aggregation |-> 0]

QueryIdle ==
    /\ qp = NoQuery
    /\ results = <<>>
    /\ fetchers = <<>>
    /\ chans = <<>>
    /\ merger = [pc |-> "idle"]
    /\ out = [rows |-> <<>>, closed |-> FALSE]
    /\ queryErr = "none"

ReportIdle ==
    /\ request = NoRequest
    /\ response = 0

\* No EvaluateConds call has been made.
NoEvaluation == [now |-> 0]

\* The alertState that updateAlertState starts from when the datastore has
\* no AlertState entity (lines 202-206).
NoAlertState == [ActiveConditions |-> <<>>, LastEvalTime |-> 0]

AlertsIdle ==
    /\ conds = <<>>
    /\ alertState = NoAlertState
    /\ evaluation = NoEvaluation

HandlersIdle ==
    /\ ReportIdle
    /\ QueryIdle
    /\ AlertsIdle

\* No GenerateSummaries call has returned nil yet.
NoRun == [pd |-> -1, n |-> 0]

\* No summarizing loop is under way and no history is kept.
InitStorage(l) ==
    /\ InitDatastore(l)
    /\ sums = <<>>
    /\ it = <<>>
    /\ recording = "none"
    /\ summarized = NoRun
    /\ puts = <<>>
    /\ HandlersIdle

(***************************************************************************)
(* History of the GenerateSummaries calls: partialDay of the calls that    *)
(* returned nil one after the other, how many there were (up to two), and  *)
(* the summaries and LastFullDay that the last of them left.  It is        *)
(* forgotten when a call with another partialDay begins, when a call       *)
(* returns an error and when a sample is written or deleted.               *)
(***************************************************************************)
RunBegins(pd) ==
    summarized' = IF summarized.pd = pd THEN summarized ELSE NoRun

RunReturnsNil ==
    summarized' =
        IF recording = "runs"
        THEN [pd   |-> partialDay,
              n    |-> IF summarized.n = 0 THEN 1 ELSE 2,
              day  |-> daySummaryEntities,
              hour |-> hourSummaryEntities,
              lfd  |-> lastFullDay]
        ELSE summarized

RunReturnsError == summarized' = NoRun

SamplesBecome(S) ==
    summarized' = IF S # sampleEntities THEN NoRun ELSE summarized

(***************************************************************************)
(* WriteSamples (storage/common.go lines 70-77): one key "ts|source|name"  *)
(* per sample (getSampleId, lines 81-83), then a single datastore.PutMulti *)
(* of all the samples, whose error is returned.  ss: the samples, with     *)
(* distinct keys.  putOk: PutMulti succeeded; otherwise stored are the     *)
(* samples that the datastore had stored when it returned the error.       *)
(***************************************************************************)
\* History: the PutMulti call that WriteSamples makes.
PutMultiCalled(ss, putOk) ==
    puts' = IF recording = "puts"
            THEN Append(puts, [samples |-> ss, err |-> ~putOk])
            ELSE puts

WriteSamplesCall(ss, putOk, stored) ==
    /\ writes < MaxWrites
    /\ writes' = writes + 1
    /\ \A x, y \in ss : KeyOf(x) = KeyOf(y) => x = y
    /\ IF putOk
         THEN /\ stored = ss
              /\ UNCHANGED storeErrors
         ELSE /\ stored \subseteq ss
              /\ StoreError
    /\ sampleEntities' = PutEntities(sampleEntities, stored)
    /\ SamplesBecome(sampleEntities')
    /\ PutMultiCalled(ss, putOk)
    /\ UNCHANGED <<reporterVars, loopVars, recording>>
    /\ UNCHANGED <<summaryVars, lastFullDay, location, gsPc, partialDay,
                   dayStart, lfd, deleteVars>>

\* WriteSamples called by another caller than a handler of the model.
WriteSamples(ss, putOk, stored) ==
    /\ WriteSamplesCall(ss, putOk, stored)
    /\ UNCHANGED handlerVars

(***************************************************************************)
(* GenerateSummaries (lines 40-89).                                        *)
(***************************************************************************)
\* Lines 41-64: partialDay, then dayStart from getSummaryLastFullDay
\* (lines 158-165).  now is in the server's location.  getOk: datastore.Get
\* succeeded or found no entity.
GenerateSummariesBegin(now, fullDayDelay, getOk) ==
    /\ gsPc = "idle"
    /\ IF getOk
         THEN /\ gsPc' = "summarizeDay"
              /\ partialDay' = StartOfDay(now - fullDayDelay, location)
              /\ lfd' = lastFullDay
              /\ dayStart' = IF lastFullDay # 0 THEN AddDays(lastFullDay, 1)
                             ELSE 0
              /\ RunBegins(partialDay')
              /\ UNCHANGED storeErrors
         ELSE /\ StoreError
              /\ RunReturnsError
              /\ UNCHANGED <<gsPc, partialDay, dayStart, lfd>>
    /\ UNCHANGED <<reporterVars, loopVars, handlerVars, recording, puts>>
    /\ UNCHANGED <<sampleEntities, summaryVars, lastFullDay, location,
                   deleteVars, writes>>

\* Line 68: one summarizeDay call (lines 251-300) with its writeSummaries
\* call (lines 197-246).  readOk: the query iterator returned no error.
\* writeOk: every PutMulti succeeded; otherwise writtenDay and writtenHour
\* are the summaries the datastore had stored when the error was returned.
SummarizeDay(readOk, writeOk, writtenDay, writtenHour) ==
    /\ gsPc = "summarizeDay"
    /\ LET S == QuerySamples(dayStart)
       IN IF S = {}
            THEN \* numSamples == 0: GenerateSummaries breaks and returns nil
                 /\ readOk /\ writeOk
                 /\ writtenDay = {} /\ writtenHour = {}
                 /\ GenerateSummariesReturn
                 /\ RunReturnsNil
                 /\ UNCHANGED <<summaryVars, storeErrors>>
            ELSE IF ~readOk
            THEN /\ writeOk
                 /\ writtenDay = {} /\ writtenHour = {}
                 /\ StoreError
                 /\ GenerateSummariesReturn
                 /\ RunReturnsError
                 /\ UNCHANGED summaryVars
            ELSE LET ds == FirstDay(S, location)
                     day == DaySamples
                     daySums == PendingDaySums
                     hourSums == PendingHourSums
                 IN IF writeOk
                      THEN /\ writtenDay = {} /\ writtenHour = {}
                           /\ daySummaryEntities' =
                                PutEntities(daySummaryEntities, daySums)
                           /\ hourSummaryEntities' =
                                PutEntities(hourSummaryEntities, hourSums)
                           /\ UNCHANGED <<storeErrors, summarized>>
                           /\ GenerateSummariesContinue(ds)
                      ELSE /\ writtenDay \subseteq daySums
                           /\ writtenHour \subseteq hourSums
                           /\ daySummaryEntities' =
                                PutEntities(daySummaryEntities, writtenDay)
                           /\ hourSummaryEntities' =
                                PutEntities(hourSummaryEntities, writtenHour)
                           /\ StoreError
                           /\ IF ReturnsError(writeOk)
                                THEN /\ GenerateSummariesReturn
                                     /\ RunReturnsError
                                ELSE /\ GenerateSummariesContinue(ds)
                                     /\ UNCHANGED summarized
    /\ UNCHANGED <<reporterVars, loopVars, handlerVars, recording, puts>>
    /\ UNCHANGED <<sampleEntities, lastFullDay, location, lfd, deleteVars,
                   writes>>

\* Lines 77-86: the day before partialDay is recorded as fully summarized.
MarkFullDay(putOk) ==
    /\ gsPc = "mark"
    /\ IF putOk
         THEN /\ lastFullDay' = dayStart
              /\ dayStart' = AddDays(dayStart, 1)
              /\ gsPc' = "summarizeDay"
              /\ UNCHANGED <<storeErrors, partialDay, summarized>>
         ELSE /\ StoreError
              /\ GenerateSummariesReturn
              /\ RunReturnsError
              /\ UNCHANGED lastFullDay
    /\ UNCHANGED <<reporterVars, loopVars, handlerVars, recording, puts>>
    /\ UNCHANGED <<sampleEntities, summaryVars, location, lfd, deleteVars,
                   writes>>

(***************************************************************************)
(* DeleteSummarizedSamples (lines 96-141).                                 *)
(***************************************************************************)
\* Mutant: keepDay one day later.
KeepDayLater(day, daysToKeep) == AddDays(day, 2 - daysToKeep)

\* lastFullDay.In(loc).AddDate(0, 0, 1-daysToKeep) (line 103).
KeepDay(day, daysToKeep) == AddDays(day, 1 - daysToKeep)

\* Mutant: the query with the filter "Timestamp <=".
QueryOldSamplesInclusive(kd) == {x \in sampleEntities : x.ts <= kd}

\* The samples that match the filter "Timestamp <" of the query (line 108).
QueryOldSamples(kd) == {x \in sampleEntities : x.ts < kd}

\* Lines 97-109.  keepDay is lastFullDay.In(loc).AddDate(0, 0, 1-daysToKeep),
\* which is the same instant for every loc.
DeleteSummarizedSamplesBegin(daysToKeep, getOk) ==
    /\ dlPc = "idle"
    /\ IF ~getOk
         THEN /\ StoreError
              /\ UNCHANGED deleteVars
         ELSE /\ UNCHANGED storeErrors
              /\ IF lastFullDay = 0
                   THEN UNCHANGED deleteVars
                   ELSE /\ dlPc' = "query"
                        /\ keepDay' = KeepDay(lastFullDay, daysToKeep)
                        /\ errors' = 0
                        /\ keys' = {}
    /\ UNCHANGED <<reporterVars, loopVars, handlerVars, recording,
                   summarized, puts>>
    /\ UNCHANGED <<sampleEntities, summaryVars, lastFullDay, location, gsPc,
                   partialDay, dayStart, lfd, writes>>

\* Lines 111-117: up to summaryDeleteBatchSize keys of samples earlier than
\* keepDay.
DeleteQuery(queryOk, ks) ==
    /\ dlPc = "query"
    /\ LET old == {KeyOf(s) : s \in QueryOldSamples(keepDay)}
       IN IF ~queryOk
            THEN /\ ks = {}
                 /\ StoreError
                 /\ DeleteSummarizedSamplesReturn
            ELSE /\ ks \subseteq old
                 /\ Cardinality(ks)
                      = Min(Cardinality(old), summaryDeleteBatchSize)
                 /\ UNCHANGED storeErrors
                 /\ IF ks = {}
                      THEN DeleteSummarizedSamplesReturn
                      ELSE /\ keys' = ks
                           /\ dlPc' = "delete"
                           /\ UNCHANGED <<keepDay, errors>>
    /\ UNCHANGED <<reporterVars, loopVars, handlerVars, recording,
                   summarized, puts>>
    /\ UNCHANGED <<sampleEntities, summaryVars, lastFullDay, location, gsPc,
                   partialDay, dayStart, lfd, writes>>

\* Mutant: the call gives up when the count reaches the maximum.
GivesUpAtLimit(n) == n >= maxSummaryDeleteErrors

\* "if errors > maxSummaryDeleteErrors", n being errors after "errors++".
GivesUp(n) == n > maxSummaryDeleteErrors

\* Lines 119-138: datastore.DeleteMulti(c, keys).
DeleteBatch(deleteOk) ==
    /\ dlPc = "delete"
    /\ IF deleteOk
         THEN /\ sampleEntities' =
                   {s \in sampleEntities : KeyOf(s) \notin keys}
              /\ SamplesBecome(sampleEntities')
              /\ UNCHANGED storeErrors
              /\ IF Cardinality(keys) < summaryDeleteBatchSize
                   THEN DeleteSummarizedSamplesReturn
                   ELSE /\ dlPc' = "query"
                        /\ errors' = 0
                        /\ keys' = {}
                        /\ UNCHANGED keepDay
         ELSE /\ StoreError
              /\ UNCHANGED <<sampleEntities, summarized>>
              /\ IF GivesUp(errors + 1)
                   THEN DeleteSummarizedSamplesReturn
                   ELSE /\ dlPc' = "query"
                        /\ errors' = errors + 1
                        /\ keys' = {}
                        /\ UNCHANGED keepDay
    /\ UNCHANGED <<reporterVars, loopVars, handlerVars, recording, puts>>
    /\ UNCHANGED <<summaryVars, lastFullDay, location, gsPc, partialDay,
                   dayStart, lfd, writes>>

(***************************************************************************)
(* The state machines.                                                     *)
(***************************************************************************)
\* The collector next to a server in the first location.
Init == InitReporter /\ InitStorage(0)

\* The server in any of the locations; the collector stays as constructed.
InitServer == InitReporter /\ \E l \in Locations : InitStorage(l)

Worker ==
    \/ WorkerSeesStopping
    \/ WorkerTakeSamples
    \/ \E writeOk \in BOOLEAN : WorkerStopWrite(writeOk)
    \/ \E resp \in Responses : WorkerSend(resp)
    \/ WorkerUpdateQueue
    \/ \E writeOk \in BOOLEAN : WorkerWriteFile(writeOk)
    \/ WorkerWake

Timers == \E current \in BOOLEAN : TimerFire(current)

Next ==
    \/ NewReporter
    \/ Start
    \/ \E k \in 1..MaxSamples : ReportSamples(k)
    \/ TriggerRetryTimeout
    \/ Worker
    \/ Timers
    \/ StopSetStopping
    \/ StopTrigger
    \/ StopJoin

\* Reporter with clean shutdowns only.
Spec == Init /\ [][Next]_vars

\* Reporter whose process may also die at any moment.
SpecCrash == Init /\ [][Next \/ Crash]_vars

(***************************************************************************)
(* Scheduling: the Go runtime runs every runnable goroutine, so the        *)
(* worker, the timers and the caller of stop() make progress whenever      *)
(* they can; a stopped or dead collector is started again.  Producers and  *)
(* triggerRetryTimeout callers are under no obligation.                    *)
(***************************************************************************)
Fairness ==
    /\ WF_vars(Worker)
    /\ WF_vars(Timers)
    /\ WF_vars(StopTrigger)
    /\ WF_vars(StopJoin)
    /\ WF_vars(NewReporter)
    /\ WF_vars(Start)

SpecLive == Init /\ [][Next]_vars /\ Fairness

\* The storage of the App Engine server: samples are written while
\* GenerateSummaries and DeleteSummarizedSamples calls run, one call of each
\* at a time.
StorageNext ==
    \/ \E s \in [ts : SampleTimes, sn : Series, v : 1..MaxValue] :
          WriteSamples({s}, TRUE, {s})
    \/ \E now \in NowTimes, fullDayDelay \in FullDayDelays,
          getOk \in BOOLEAN :
          GenerateSummariesBegin(now, fullDayDelay, getOk)
    \/ /\ gsPc = "summarizeDay"
       /\ \E readOk \in BOOLEAN, writeOk \in BOOLEAN,
             writtenDay \in SUBSET PendingDaySums,
             writtenHour \in SUBSET PendingHourSums :
             SummarizeDay(readOk, writeOk, writtenDay, writtenHour)
    \/ \E putOk \in BOOLEAN : MarkFullDay(putOk)
    \/ \E daysToKeep \in DaysToKeep, getOk \in BOOLEAN :
          DeleteSummarizedSamplesBegin(daysToKeep, getOk)
    \/ \E queryOk \in BOOLEAN,
          ks \in SUBSET {KeyOf(s) : s \in sampleEntities} :
          DeleteQuery(queryOk, ks)
    \/ \E deleteOk \in BOOLEAN : DeleteBatch(deleteOk)

SpecStorage == InitServer /\ [][StorageNext]_vars

\* The same calls made one after the other: a call starts only when no
\* other call is in progress.
SequentialNext ==
    \/ /\ gsPc = "idle" /\ dlPc = "idle"
       /\ \E s \in [ts : SampleTimes, sn : Series, v : 1..MaxValue] :
             WriteSamples({s}, TRUE, {s})
    \/ /\ dlPc = "idle"
       /\ \/ \E now \in NowTimes, fullDayDelay \in FullDayDelays,
                getOk \in BOOLEAN :
                GenerateSummariesBegin(now, fullDayDelay, getOk)
          \/ /\ gsPc = "summarizeDay"
             /\ \E readOk \in BOOLEAN, writeOk \in BOOLEAN,
                   writtenDay \in SUBSET PendingDaySums,
                   writtenHour \in SUBSET PendingHourSums :
                   SummarizeDay(readOk, writeOk, writtenDay, writtenHour)
          \/ \E putOk \in BOOLEAN : MarkFullDay(putOk)
    \/ /\ gsPc = "idle"
       /\ \/ \E daysToKeep \in DaysToKeep, getOk \in BOOLEAN :
                DeleteSummarizedSamplesBegin(daysToKeep, getOk)
          \/ \E queryOk \in BOOLEAN,
                ks \in SUBSET {KeyOf(s) : s \in sampleEntities} :
                DeleteQuery(queryOk, ks)
          \/ \E deleteOk \in BOOLEAN : DeleteBatch(deleteOk)

SpecSequential == InitServer /\ [][SequentialNext]_vars

\* The same machine keeping the history of its GenerateSummaries calls.
InitRerun ==
    /\ InitReporter
    /\ \E l \in Locations : InitDatastore(l)
    /\ sums = <<>>
    /\ it = <<>>
    /\ recording = "runs"
    /\ summarized = NoRun
    /\ puts = <<>>
    /\ HandlersIdle

SpecRerun == InitRerun /\ [][SequentialNext]_vars

(***************************************************************************)
(* updateSummary on its own: a loop that hands the samples of one period   *)
(* to updateSummary one after the other, as the loop of summarizeDay does  *)
(* for daySums (lines 265-281).  The samples are drawn at the start.       *)
(***************************************************************************)
MaxSummarized == 3

MaxSummarizedValue == 7

SummarizedSamples == [sn : Series, v : 1..MaxSummarizedValue]

\* One pass of the loop: sums[key] is created or updated from the next
\* sample (lines 171-191).
UpdateSummaryCall ==
    /\ it # <<>>
    /\ LET sam == Head(it)
           key == sam.sn
           cur == IF key \in DOMAIN sums THEN sums[key] ELSE NoSummary
       IN sums' = [k \in DOMAIN sums \cup {key} |->
                     IF k = key THEN updateSummary(cur, sam.sn, sam.v, 0)
                     ELSE sums[k]]
    /\ it' = Tail(it)
    /\ UNCHANGED reporterVars
    /\ UNCHANGED <<sampleEntities, summaryVars, lastFullDay, location, gsPc,
                   partialDay, dayStart, lfd, deleteVars, writes,
                   storeErrors, recording, summarized, puts, handlerVars>>

InitUpdateSummary ==
    /\ InitReporter
    /\ InitDatastore(0)
    /\ recording = "none"
    /\ summarized = NoRun
    /\ puts = <<>>
    /\ HandlersIdle
    /\ sums = <<>>
    /\ \E n \in 1..MaxSummarized : it \in [1..n -> SummarizedSamples]

SpecUpdateSummary == InitUpdateSummary /\ [][UpdateSummaryCall]_vars

(***************************************************************************)
(* WriteSamples on its own, called with batches of samples, keeping the    *)
(* history of its PutMulti calls.                                          *)
(***************************************************************************)
\* The most entities that one datastore.PutMulti call accepts (500).
PutMultiLimit == 2

WrittenTimes == {DayTicks, DayTicks + 1}

WrittenSamples == [ts : WrittenTimes, sn : Series, v : 1..MaxValue]

\* The "samples" arguments: up to one sample more than PutMulti accepts,
\* no two with the same key.
Batches ==
    {ss \in SUBSET WrittenSamples :
        /\ Cardinality(ss) <= PutMultiLimit + 1
        /\ \A x, y \in ss : KeyOf(x) = KeyOf(y) => x = y}

WritesNext ==
    \E ss \in Batches, putOk \in BOOLEAN :
        \E stored \in SUBSET ss : WriteSamples(ss, putOk, stored)

InitWrites ==
    /\ InitReporter
    /\ InitDatastore(0)
    /\ sums = <<>>
    /\ it = <<>>
    /\ recording = "puts"
    /\ summarized = NoRun
    /\ puts = <<>>
    /\ HandlersIdle

SpecWrites == InitWrites /\ [][WritesNext]_vars

(***************************************************************************)
(* handleReport (appengine/main.go lines 189-219).  A request carries its  *)
(* method, the form value d as its lines (strings.Split(data, "\n")) and   *)
(* the form value s.                                                       *)
(***************************************************************************)
\* cfg.ReportSecret and another secret.
ReportSecret == "secret"

OtherSecret == "guess"

\* common.HashStringWithSHA256 (common/util.go): the digest stands for the
\* string it was computed from; no two strings share a digest.
HashStringWithSHA256(str) == <<"sha256", str>>

\* fmt.Sprintf("%s|%s", data, cfg.ReportSecret) (line 197).
Signed(data, secret) == <<data, "|", secret>>

\* Lines that are no sample: the empty line (one field) and "5|a" (two).
MalformedLines == {[fields |-> 1], [fields |-> 2]}

\* The error of Sample.Parse.
BadLine == [err |-> "bad sample"]

\* Lines of a report in the four-field form "ts|source|name|value" and in
\* the three-field form "source|name|value".
FourFieldLines ==
    {[ts |-> DayTicks, sn |-> "a", v |-> 1],
     [ts |-> DayTicks + 1, sn |-> "b", v |-> 1]}

ThreeFieldLines == {[sn |-> "a", v |-> MaxValue]}

ReportLines == FourFieldLines \cup ThreeFieldLines \cup {[fields |-> 1]}

\* Sample.Parse(line, now): the sample of a well-formed line, with now as
\* the timestamp of the three-field form; an error for any other line.
Parse(line, now) ==
    IF line \in FourFieldLines THEN line
    ELSE IF line \in ThreeFieldLines
    THEN [ts |-> now, sn |-> line.sn, v |-> line.v]
    ELSE BadLine

\* The longest report, in lines.
MaxLines == 2

ReportData == UNION {[1..n -> ReportLines] : n \in 1..MaxLines}

\* dev: appengine.IsDevAppServer(); now: time.Now() (line 202).
Requests ==
    UNION {[method : {"POST", "GET"},
            d : {d},
            s : {HashStringWithSHA256(Signed(d, ReportSecret)),
                 HashStringWithSHA256(Signed(d, OtherSecret)),
                 HashStringWithSHA256(Signed(<<>>, ReportSecret))},
            dev : BOOLEAN,
            now : WrittenTimes] : d \in ReportData}

\* Mutant: the signature is never checked.
BadSignatureIgnored(req) == FALSE

\* Lines 195-199: outside the dev server the signature must be the digest
\* of "d|secret".
BadSignature(req) ==
    /\ ~req.dev
    /\ req.s # HashStringWithSHA256(Signed(req.d, ReportSecret))

\* Mutant: a line that does not parse is skipped.
BadSampleSkipped(req) == FALSE

\* Lines 205-211: some line does not parse.
BadSample(req) ==
    \E i \in 1..Len(req.d) : Parse(req.d[i], req.now) = BadLine

\* Lines 204-211: the samples of the lines that parse.
ParsedSamples(req) ==
    {Parse(req.d[i], req.now) : i \in 1..Len(req.d)} \ {BadLine}

\* putOk and stored as in WriteSamples.
HandleReport(req, putOk, stored) ==
    /\ request' = req
    /\ IF req.method # "POST"
         THEN /\ response' = 405
              /\ putOk /\ stored = {}
              /\ UNCHANGED <<storeVars, queryVars, alertVars>>
         ELSE IF BadSignature(req)
         THEN /\ response' = 400
              /\ putOk /\ stored = {}
              /\ UNCHANGED <<storeVars, queryVars, alertVars>>
         ELSE IF BadSample(req)
         THEN /\ response' = 400
              /\ putOk /\ stored = {}
              /\ UNCHANGED <<storeVars, queryVars, alertVars>>
         ELSE /\ WriteSamplesCall(ParsedSamples(req), putOk, stored)
              /\ response' = IF putOk THEN 200 ELSE 500
              /\ UNCHANGED <<queryVars, alertVars>>

ReportNext ==
    \E req \in Requests, putOk \in BOOLEAN :
        \E stored \in SUBSET ParsedSamples(req) :
            HandleReport(req, putOk, stored)

InitReport ==
    /\ InitReporter
    /\ InitDatastore(0)
    /\ sums = <<>>
    /\ it = <<>>
    /\ recording = "none"
    /\ summarized = NoRun
    /\ puts = <<>>
    /\ HandlersIdle

SpecReport == InitReport /\ [][ReportNext]_vars


(***************************************************************************)
(* Properties of the reporter.                                             *)
(***************************************************************************)

Unaccepted == SelectSeq([i \in 1..nextId |-> i], LAMBDA x : x \notin acked)

Held(id) ==
    \/ id \in acked
    \/ stopWriteEverFailed
    \/ (wPc = "exited" /\ fileExists /\ id \in Range(file))

C4_CrashLosesNoSample ==
    wPc = "dead" =>
        \A id \in 1..nextId : id \in acked \/ (fileExists /\ id \in Range(file))

\* C5: reportSamples never blocks.  Whenever the worker is idle, has a POST
\* in flight, writes the backing file, sleeps in the backoff or has exited,
\* the mutex that reportSamples needs is free.
C5_ReportNeverBlocks ==
    wPc \in {"wait", "send", "write", "sleep", "exited"} => mu = "free"

\* C6: no needless rewrite on clean shutdown.  A worker that shuts down
\* with the queue equal to the contents of the existing backing file does
\* not replace the file.
C6_NoRewriteOnCleanShutdown ==
    [][(/\ wPc = "stopWrite"
        /\ wPc' = "exited"
        /\ fileExists
        /\ file = queuedSamples
        /\ backingFileSamples = queuedSamples) => fileStamp' = fileStamp]_vars

\* C7: retry payload.  The first request after a failed one is cut from a
\* snapshot that starts with the returned samples, in order, followed by
\* the samples enqueued in the meantime; it carries the first
\* min(len, ReportBatchSize) samples of that snapshot, so it begins with
\* the first unsent sample.
C7_RetryPayload ==
    [][(returned # <<>> /\ postCount' = postCount + 1) =>
          /\ IsPrefix(returned, samples)
          /\ Ascending(samples)
          /\ lastPost'.d = Take(samples, Min(Len(samples), ReportBatchSize))
          /\ lastPost'.d[1] = returned[1]]_vars

\* S1 failed, S2 was enqueued, the next payload was S1 followed by S2.
C7_Witness ==
    /\ failures = 1
    /\ calls = 2
    /\ postCount = 2
    /\ firstSeen = <<1, 2>>
    /\ lastPost.d = <<1, 2>>
    /\ restarts = 0

\* ceil(n / ReportBatchSize)
CeilBatches(n) == (n + ReportBatchSize - 1) \div ReportBatchSize

\* The only samples so far came from one reportSamples call, no POST
\* failed and the reporter was not restarted.
OneCallHealthy == calls = 1 /\ failures = 0 /\ restarts = 0

\* C8: batching.  Every request carries the first min(len, ReportBatchSize)
\* samples of the worker's snapshot, between 1 and ReportBatchSize of them;
\* the N samples of a single call are delivered as ceil(N/ReportBatchSize)
\* requests, the i-th (from 0) carrying samples
\* [i*ReportBatchSize, min(N, (i+1)*ReportBatchSize)).
C8_Batching ==
    [][/\ (postCount' = postCount + 1) =>
            /\ Len(lastPost'.d) \in 1..ReportBatchSize
            /\ lastPost'.d = Take(samples, Len(lastPost'.d))
            /\ (Len(lastPost'.d) < ReportBatchSize
                    => Len(samples) = Len(lastPost'.d))
       /\ (OneCallHealthy' /\ postCount' > 0) =>
            /\ lastPost'.ok
            /\ lastPost'.d =
                 [j \in 1..(Min(nextId', postCount' * ReportBatchSize)
                            - (postCount' - 1) * ReportBatchSize)
                    |-> (postCount' - 1) * ReportBatchSize + j]
            /\ postCount' <= CeilBatches(nextId')
            /\ (acked' = 1..nextId' => postCount' = CeilBatches(nextId'))]_vars

\* MaxSamples samples of one call were delivered in more than one request.
C8_Witness ==
    /\ calls = 1
    /\ failures = 0
    /\ restarts = 0
    /\ nextId = MaxSamples
    /\ acked = 1..MaxSamples
    /\ postCount = CeilBatches(MaxSamples)
    /\ postCount > 1

\* C9: backoff.  The worker starts a POST after a failed one only once the
\* timer of that failure has expired or the retry timeout was triggered
\* (by triggerRetryTimeout or stop) after that failure.
C9_BackoffHonoured == wPc = "send" => retryDue

(***************************************************************************)
(* Properties of the summarizer.                                           *)
(***************************************************************************)

\* C10: last_full_day is monotonic.  No step of a GenerateSummaries run,
\* whether the run succeeds or fails midway, and no WriteSamples or
\* DeleteSummarizedSamples call in between, makes the stored
\* SummaryState.LastFullDay earlier than it was; so after every run it is
\* not earlier than before the run.
C10_LastFullDayMonotonic == [][lastFullDay' >= lastFullDay]_vars

\* A run that started from a recorded day has returned with a later day
\* recorded, after a datastore error and a purge of samples.
C10_Witness ==
    /\ gsPc = "idle"
    /\ lfd > 0
    /\ lastFullDay > lfd
    /\ storeErrors >= 1
    /\ sampleEntities = {}
    /\ writes = MaxWrites

\* C11: full-day marking.  A GenerateSummaries run computes partialDay as
\* the start of the day of now - fullDayDelay and keeps it until it returns;
\* SummaryState.LastFullDay is only ever set, by a run, to the day it has
\* just summarized, and only if that day starts strictly before partialDay:
\* the day of now - fullDayDelay and later days are never marked full.
C11_FullDayMarking ==
    [][/\ (gsPc = "idle" /\ gsPc' # "idle") =>
            \E now \in NowTimes, fullDayDelay \in FullDayDelays :
                partialDay' = StartOfDay(now - fullDayDelay, location)
       /\ (gsPc # "idle" /\ gsPc' # "idle") => partialDay' = partialDay
       /\ (lastFullDay' # lastFullDay) =>
            /\ gsPc = "mark"
            /\ lastFullDay' = dayStart
            /\ dayStart < partialDay
            /\ lastFullDay' < partialDay']_vars

\* A run that started with no day marked has marked a day and then
\* summarized a day that does not start before partialDay, without marking
\* it.
C11_Witness ==
    /\ gsPc = "summarizeDay"
    /\ lfd = 0
    /\ lastFullDay > 0
    /\ lastFullDay < partialDay
    /\ \E e \in daySummaryEntities :
          /\ e.ts >= partialDay
          /\ dayStart = AddDays(e.ts, 1)

\* The stored samples of the local day that starts at d.
SamplesOfDay(d) == {s \in sampleEntities : StartOfDay(s.ts, location) = d}

\* C12: progress commit protocol (calls made one after the other).
\* LastFullDay is set to D only by the Put that follows a summarizeDay call
\* for D all of whose summaries were written: at that moment the day and
\* hour summaries computed from the samples of D are stored.  When a read
\* or a write of a run fails, the run returns in that step, no later day
\* is processed and LastFullDay keeps its value.
C12_CommitAfterWrites ==
    [][/\ (lastFullDay' # lastFullDay) =>
            /\ gsPc = "mark"
            /\ lastFullDay' = dayStart
            /\ SamplesOfDay(dayStart) # {}
            /\ DaySums(SamplesOfDay(dayStart), dayStart)
                  \subseteq daySummaryEntities
            /\ HourSums(SamplesOfDay(dayStart)) \subseteq hourSummaryEntities
       /\ (gsPc # "idle" /\ storeErrors' # storeErrors) =>
            /\ gsPc' = "idle"
            /\ lastFullDay' = lastFullDay]_vars

\* A run marked a day and then failed while writing the summaries of a
\* later day: an hour summary of that day is stored, its day summary is
\* not, and LastFullDay is still the earlier day.
C12_Witness ==
    /\ gsPc = "idle"
    /\ lfd = 0
    /\ lastFullDay > 0
    /\ storeErrors = 1
    /\ \E s \in sampleEntities :
          /\ StartOfDay(s.ts, location) > lastFullDay
          /\ StartOfHour(s.ts) > AddDays(lastFullDay, 1)
          /\ \E h \in hourSummaryEntities :
                h.ts = StartOfHour(s.ts) /\ h.sn = s.sn
          /\ \A e \in daySummaryEntities :
                e.ts # StartOfDay(s.ts, location)

\* The step is the successful return of a GenerateSummaries run.
ReturnsNil ==
    /\ gsPc = "summarizeDay"
    /\ gsPc' = "idle"
    /\ storeErrors' = storeErrors

\* C13: resumable summarization (calls made one after the other).  No step
\* of a run that found LastFullDay = lfd replaces or removes a stored day
\* summary of a day up to and including lfd or a stored hour summary of an
\* hour that starts in such a day, and when the run returns without error every later day that has
\* samples has day summaries computed from all of its current samples.
C13_Resumable ==
    [][(gsPc # "idle") =>
          /\ {e \in daySummaryEntities : e.ts <= lfd}
                \subseteq daySummaryEntities'
          /\ {e \in hourSummaryEntities : StartOfDay(e.ts, location) <= lfd}
                \subseteq hourSummaryEntities'
          /\ ReturnsNil =>
                \A s \in sampleEntities :
                    StartOfDay(s.ts, location) > lfd =>
                        DaySums(SamplesOfDay(StartOfDay(s.ts, location)),
                                StartOfDay(s.ts, location))
                          \subseteq daySummaryEntities']_vars

\* The part of C14 that does not depend on the arithmetic: when a run
\* that found LastFullDay = lfd returns nil, every series with a sample in a
\* day after lfd has exactly one day summary keyed by that day, which is
\* what updateSummary makes of all samples of the series in that day, and
\* there is no day summary after lfd for a series and day without samples.
C14_DaySummaryPerSeriesAndDay ==
    [][ReturnsNil =>
          /\ \A s \in sampleEntities :
                LET day == StartOfDay(s.ts, location)
                IN day > lfd =>
                     {e \in daySummaryEntities' :
                         e.ts = day /\ e.sn = s.sn}
                       = {Summarize(day, s.sn,
                                    {x \in SamplesOfDay(day) : x.sn = s.sn})}
          /\ \A e \in daySummaryEntities' :
                e.ts > lfd =>
                  \E s \in SamplesOfDay(e.ts) : s.sn = e.sn]_vars

\* C14: every summary that updateSummary has built has min <= avg <= max.
C14_AvgBetweenMinAndMax ==
    \A k \in DOMAIN sums :
        sums[k].min <= sums[k].avg /\ sums[k].avg <= sums[k].max

\* The samples of series sn in the UTC hour that starts at h.
SamplesOfHour(h, sn) ==
    {s \in sampleEntities : StartOfHour(s.ts) = h /\ s.sn = sn}

\* C15: when a run that found LastFullDay = lfd returns nil, every series
\* and UTC hour with a sample, all of whose samples lie in days after lfd
\* (the days this run summarized), has exactly one hour summary keyed by the
\* hour start, and it is what updateSummary makes of all samples of the
\* series in that hour, whatever the offset of the zone.
C15_HourSummaryContent ==
    [][ReturnsNil =>
          \A s \in sampleEntities :
              LET h == StartOfHour(s.ts)
                  H == SamplesOfHour(h, s.sn)
              IN (\A x \in H : StartOfDay(x.ts, location) > lfd) =>
                   {e \in hourSummaryEntities' : e.ts = h /\ e.sn = s.sn}
                     = {Summarize(h, s.sn, H)}]_vars

\* C16: when a GenerateSummaries call returns nil after another call with
\* the same partialDay (the same now and fullDayDelay) returned nil, and no
\* sample was written or deleted in between, the day summaries, the hour
\* summaries and LastFullDay are the ones that the earlier call left.
C16_RerunChangesNothing ==
    [][(ReturnsNil /\ summarized.n > 0 /\ summarized.pd = partialDay) =>
          /\ daySummaryEntities' = summarized.day
          /\ hourSummaryEntities' = summarized.hour
          /\ lastFullDay' = summarized.lfd]_vars

\* A second call has returned nil and left summaries and a LastFullDay.
C16_Witness ==
    /\ gsPc = "idle"
    /\ summarized.n = 2
    /\ daySummaryEntities # {}
    /\ hourSummaryEntities # {}
    /\ lastFullDay # 0

\* The samples whose key is no longer stored after the step.
Deleted ==
    {s \in sampleEntities : \A x \in sampleEntities' : KeyOf(x) # KeyOf(s)}

\* A DeleteSummarizedSamples call returns nil after its loop.
PurgeReturnsNil ==
    dlPc # "idle" /\ dlPc' = "idle" /\ storeErrors' = storeErrors

\* C17: keepDay is LastFullDay plus one day minus daysToKeep days; a sample
\* is deleted only by DeleteSummarizedSamples, only when its timestamp is
\* earlier than keepDay and its day is not later than LastFullDay, and never
\* while LastFullDay is unset; when the call returns nil every sample left
\* has a timestamp of keepDay or later.
C17_PurgeBoundary ==
    [][/\ dlPc # "idle" =>
             /\ lastFullDay # 0
             /\ \E k \in DaysToKeep : keepDay = KeepDay(lastFullDay, k)
       /\ \A s \in Deleted :
             /\ dlPc = "delete"
             /\ s.ts < keepDay
             /\ StartOfDay(s.ts, location) <= lastFullDay
       /\ lastFullDay = 0 => Deleted = {}
       /\ PurgeReturnsNil => \A s \in sampleEntities' : s.ts >= keepDay]_vars

\* A purge has deleted the samples behind a stored day summary and has kept
\* a sample of a later day.
C17_Witness ==
    /\ dlPc = "idle"
    /\ lastFullDay # 0
    /\ \E e \in daySummaryEntities :
          /\ \A s \in SamplesOfDay(e.ts) : s.sn # e.sn
          /\ \E s \in sampleEntities : s.ts > e.ts

\* The value of sample s lies within a stored summary of its series that
\* starts at ts.
Reflected(s, ts, table) ==
    \E e \in table :
        /\ e.ts = ts /\ e.sn = s.sn
        /\ e.min <= Float32(s.v) /\ Float32(s.v) <= e.max

PutKeys(i) == {KeyOf(s) : s \in puts[i].samples}

\* C19: after any sequence of WriteSamples calls the store holds at most
\* one sample per key; a stored sample is the one of the last call that held
\* its key, or of the last one before it if every later one failed; and the
\* sample of the last call that held a key is stored if that call returned
\* nil.
C19_LastWriteWins ==
    /\ \A x, y \in sampleEntities : KeyOf(x) = KeyOf(y) => x = y
    /\ \A s \in sampleEntities :
          \E i \in 1..Len(puts) :
              /\ s \in puts[i].samples
              /\ \A j \in (i + 1)..Len(puts) :
                    KeyOf(s) \in PutKeys(j) => puts[j].err
    /\ \A i \in 1..Len(puts) :
          ~puts[i].err =>
             \A s \in puts[i].samples :
                 (\A j \in (i + 1)..Len(puts) : KeyOf(s) \notin PutKeys(j))
                    => s \in sampleEntities

\* Two calls returned nil, the second with another value for a key of the
\* first and with a new key.
C19_Witness ==
    /\ Len(puts) = 2
    /\ ~puts[1].err /\ ~puts[2].err
    /\ \E x \in puts[1].samples, y \in puts[2].samples :
          KeyOf(x) = KeyOf(y) /\ x.v # y.v /\ y \in sampleEntities
    /\ PutKeys(2) \ PutKeys(1) # {}

\* C20: no PutMulti call of WriteSamples is handed more than PutMultiLimit
\* entities.
C20_PutMultiAtMostLimit ==
    \A i \in 1..Len(puts) : Cardinality(puts[i].samples) <= PutMultiLimit

\* ---------------------------------------------------------------------
\* DoQuery: one fetcher goroutine per line, mergeQueryData and
\* writeQueryOutput (src/appengine/storage/query.go).
\* ---------------------------------------------------------------------

\* The lines of a query, in the order of qp.SourceNames.
NumLines == 2

QueryLines == 1..NumLines

\* The most points that a line's query yields.
MaxPoints == 3

\* Timestamps of the stored entities. The datastore keeps microseconds and a
\* time.Duration counts nanoseconds, so the time between two entities is an
\* even number of units.
QueryTimes == {2 * n : n \in 1..MaxPoints}

PointValues == {Float32(v) : v \in 1..MaxValue}

\* The largest qp.Aggregation.
MaxAggregation == 2

\* point.err and timeData.err.
NoError == "nil"

FetchError == "fetch failed"

\* float32(math.NaN()): a value that no point has.
NaN == -1

\* Order("Timestamp") over entities whose key holds the timestamp.
ByTimestamp(s) ==
    \A j \in 1..(Len(s) - 1) : s[j].timestamp < s[j + 1].timestamp

\* What q.Run(c) yields: entities of one line ordered by Timestamp, of
\* which the key holds the timestamp.
QueryResults ==
    {s \in UNION {[1..n -> [timestamp : QueryTimes,
                            value : PointValues,
                            err : {NoError}]] : n \in 0..MaxPoints} :
        ByTimestamp(s)}

\* Lines 181-184: total += points[i].value.
RECURSIVE Total(_)
Total(points) ==
    IF points = <<>>
    THEN 0
    ELSE FAdd(Total(SubSeq(points, 1, Len(points) - 1)),
              points[Len(points)].value)

averagePoints(points) ==
    IF Len(points) = 0
    THEN [timestamp |-> 0, value |-> 0, err |-> NoError]
    ELSE IF Len(points) = 1
    THEN points[1]
    ELSE LET elapsed ==
                 points[Len(points)].timestamp - points[1].timestamp
         IN [timestamp |-> points[1].timestamp + elapsed \div 2,
             value |-> FDiv(Total(points), Float32(Len(points))),
             err |-> NoError]

\* Mutant: the points left at the end of the results are dropped.
ResidualDropped(f) == FALSE

\* Line 150: points != nil && len(points) > 0.
Residual(f) == qp.Aggregation > 1 /\ Len(f.points) > 0

\* Lines 148-167, one it.Next(s) and what follows it up to the next channel
\* operation. failed: it.Next returns an error.
FetcherNext(i, failed) ==
    LET f == fetchers[i]
        p == results[i][f.pos]
        buffered == Append(f.points, p)
    IN /\ merger.pc # "idle"
       /\ f.pc = "next"
       /\ IF failed
            THEN fetchers' = [fetchers EXCEPT ![i] =
                     [f EXCEPT !.pc = "sendErr",
                               !.pending = <<[timestamp |-> 0, value |-> 0,
                                              err |-> FetchError]>>]]
            ELSE IF f.pos > Len(results[i])
            THEN IF Residual(f)
                 THEN fetchers' = [fetchers EXCEPT ![i] =
                          [f EXCEPT !.pc = "sendLast",
                                    !.pending = <<averagePoints(f.points)>>]]
                 ELSE fetchers' = [fetchers EXCEPT ![i] =
                          [f EXCEPT !.pc = "close"]]
            ELSE IF qp.Aggregation <= 1
            THEN fetchers' = [fetchers EXCEPT ![i] =
                     [f EXCEPT !.pc = "send", !.pos = @ + 1,
                               !.pending = <<p>>]]
            ELSE IF Len(buffered) = qp.Aggregation
            THEN fetchers' = [fetchers EXCEPT ![i] =
                     [f EXCEPT !.pc = "send", !.pos = @ + 1,
                               !.points = <<>>,
                               !.pending = <<averagePoints(buffered)>>]]
            ELSE fetchers' = [fetchers EXCEPT ![i] =
                     [f EXCEPT !.pos = @ + 1, !.points = buffered]]
       /\ UNCHANGED <<otherVars, qp, results, chans, merger, out,
                      queryErr>>

\* Line 153: close(ch).
FetcherClose(i) ==
    /\ fetchers[i].pc = "close"
    /\ fetchers' = [fetchers EXCEPT ![i].pc = "exit"]
    /\ chans' = [chans EXCEPT ![i].closed = TRUE]
    /\ UNCHANGED <<otherVars, qp, results, merger, out, queryErr>>

\* Mutant: the comparison of line 222 the other way round.
Later(p, t) == t = 0 \/ p.timestamp > t

\* Line 222: t.IsZero() || next[i].timestamp.Before(t).
Earlier(p, t) == t = 0 \/ p.timestamp < t

\* Lines 221-225 for the slot that the loop of line 211 is at, and on to
\* the next slot; after the last one, lines 228-231.
MergerAdvance(nxt) ==
    LET i == merger.i
        t == IF nxt[i] # <<>> /\ Earlier(nxt[i][1], merger.t)
             THEN nxt[i][1].timestamp
             ELSE merger.t
    IN IF i < NumLines
       THEN /\ merger' = [merger EXCEPT !.i = i + 1, !.next = nxt, !.t = t]
            /\ out' = out
       ELSE IF t = 0
       THEN /\ merger' = [merger EXCEPT !.pc = "done", !.next = nxt]
            /\ out' = [out EXCEPT !.closed = TRUE]
       ELSE /\ merger' = [merger EXCEPT !.pc = "emit", !.next = nxt, !.t = t]
            /\ out' = out

\* Mutant: the merger takes an error point for a point.
ErrorOverlooked(p) == FALSE

\* Line 214: p.err != nil.
IsError(p) == p.err # NoError

\* Lines 212-220 with in[i] and ch <- of lines 151, 156, 162 and 166: the
\* point passes from fetcher i to the merger. An error point goes on to
\* writeQueryOutput, which returns it (lines 273-275).
MergerReceives(i) ==
    LET f == fetchers[i]
        p == f.pending[1]
    IN /\ merger.pc = "recv"
       /\ merger.i = i
       /\ merger.next[i] = <<>>
       /\ f.pc \in {"send", "sendLast", "sendErr"}
       /\ fetchers' = [fetchers EXCEPT ![i] =
              [f EXCEPT !.pending = <<>>,
                        !.pc = CASE f.pc = "send" -> "next"
                                 [] f.pc = "sendLast" -> "close"
                                 [] f.pc = "sendErr" -> "exit"]]
       /\ chans' = [chans EXCEPT ![i].sent = Append(@, p)]
       /\ IF IsError(p)
            THEN /\ out' = [rows |-> Append(out.rows,
                                [timestamp |-> 0, values |-> <<>>,
                                 err |-> p.err]),
                            closed |-> TRUE]
                 /\ merger' = [merger EXCEPT !.pc = "done"]
                 /\ queryErr' = p.err
            ELSE /\ MergerAdvance([merger.next EXCEPT ![i] = <<p>>])
                 /\ UNCHANGED queryErr
       /\ UNCHANGED <<otherVars, qp, results>>

\* Line 213 with more = false: in[i] is closed.
MergerSeesClosed(i) ==
    /\ merger.pc = "recv"
    /\ merger.i = i
    /\ merger.next[i] = <<>>
    /\ chans[i].closed
    /\ MergerAdvance(merger.next)
    /\ UNCHANGED <<otherVars, qp, results, fetchers, chans,
                   queryErr>>

\* Line 212 with next[i] != nil: nothing is received.
MergerKeeps(i) ==
    /\ merger.pc = "recv"
    /\ merger.i = i
    /\ merger.next[i] # <<>>
    /\ MergerAdvance(merger.next)
    /\ UNCHANGED <<otherVars, qp, results, fetchers, chans,
                   queryErr>>

\* Lines 233-242, with the row received by writeQueryOutput (line 272).
MergerEmits ==
    LET t == merger.t
        Taken(i) == merger.next[i] # <<>> /\ merger.next[i][1].timestamp = t
        data == [timestamp |-> t,
                 values |-> [i \in QueryLines |->
                                IF Taken(i) THEN merger.next[i][1].value
                                ELSE NaN],
                 err |-> NoError]
    IN /\ merger.pc = "emit"
       /\ out' = [out EXCEPT !.rows = Append(@, data)]
       /\ merger' = [pc |-> "recv", i |-> 1, t |-> 0,
                     next |-> [i \in QueryLines |->
                                  IF Taken(i) THEN <<>> ELSE merger.next[i]]]
       /\ UNCHANGED <<otherVars, qp, results, fetchers, chans,
                      queryErr>>

\* Lines 272 and 312-313: the range over the closed channel ends and
\* writeQueryOutput returns nil.
WriterReturns ==
    /\ out.closed
    /\ queryErr = "none"
    /\ queryErr' = NoError
    /\ UNCHANGED <<otherVars, qp, results, fetchers, chans,
                   merger, out>>

QueryNext ==
    \/ \E i \in QueryLines, failed \in BOOLEAN : FetcherNext(i, failed)
    \/ \E i \in QueryLines : FetcherClose(i)
    \/ \E i \in QueryLines : MergerReceives(i)
    \/ \E i \in QueryLines : MergerSeesClosed(i)
    \/ \E i \in QueryLines : MergerKeeps(i)
    \/ MergerEmits
    \/ WriterReturns

\* DoQuery has started the goroutines (lines 112-171).
InitQuery ==
    /\ InitReporter
    /\ InitDatastore(0)
    /\ sums = <<>>
    /\ it = <<>>
    /\ recording = "none"
    /\ summarized = NoRun
    /\ puts = <<>>
    /\ ReportIdle
    /\ AlertsIdle
    /\ qp \in [Aggregation : 0..MaxAggregation]
    /\ results \in [QueryLines -> QueryResults]
    /\ fetchers = [i \in QueryLines |->
                      [pc |-> "next", pos |-> 1, points |-> <<>>,
                       pending |-> <<>>]]
    /\ chans = [i \in QueryLines |-> [sent |-> <<>>, closed |-> FALSE]]
    /\ merger = [pc |-> "recv", i |-> 1, t |-> 0,
                 next |-> [i \in QueryLines |-> <<>>]]
    /\ out = [rows |-> <<>>, closed |-> FALSE]
    /\ queryErr = "none"

SpecQuery == InitQuery /\ [][QueryNext]_vars

\* ---------------------------------------------------------------------
\* QueryParams.UpdateGranularityAndAggregation
\* (src/appengine/storage/query.go), in seconds.
\* ---------------------------------------------------------------------

maxQueryPoints == 100

\* time.Hour.
Hour == 3600

\* The a / b of Go for integers with b > 0: the quotient truncated toward
\* zero.
Quo(a, b) == IF a >= 0 THEN a \div b ELSE 0 - ((0 - a) \div b)

\* The longest query, in hours.
MaxQueryHours == 4900

\* qp.Start of the planned queries.
PlannedStart == 2 * Hour

\* qp.End - qp.Start: an End before Start, whole hours, and times off the
\* hour.
QueryDurations ==
    {0 - Hour, 0 - 1, 1, Hour - 1}
        \cup {h * Hour : h \in 0..MaxQueryHours}
        \cup {h * Hour + Hour - 1 : h \in {99, 100, 199, 2399, 2447}}

\* The "interval" of handleQuery: any number of seconds above zero.
SampleIntervals == {60, 300, Hour, 2 * Hour}

\* sampleStart: the zero time, or a time at, before or after qp.Start.
SampleStarts == {0, PlannedStart - 1, PlannedStart, PlannedStart + 1}

\* Lines 65-73. samplesPerHour is zero for an interval above an hour.
Counts(p, sampleInterval) ==
    LET queryDuration == p.End - p.Start
        day == 24 * Hour
    IN [dayCount |-> Quo(queryDuration, day),
        hourCount |-> Quo(queryDuration, Hour),
        sampleCount |-> Quo(queryDuration, sampleInterval),
        samplesPerHour |-> Quo(Hour, sampleInterval),
        hoursPerDay |-> Quo(day, Hour)]

\* Line 73.
SamplesMissing(p, sampleStart) == sampleStart # 0 /\ p.Start < sampleStart

\* Mutant: the aggregation rounded up.
AggregationCeil(count) ==
    IF count > maxQueryPoints
    THEN (count + maxQueryPoints - 1) \div maxQueryPoints
    ELSE 1

\* Lines 75, 78-80, 84-86 and 90-92.
Aggregation(count) ==
    IF count > maxQueryPoints THEN Quo(count, maxQueryPoints) ELSE 1

\* Lines 76-93. The division of line 82 by samplesPerHour = 0 panics
\* after line 75 has set the aggregation.
Planned(p, sampleInterval, sampleStart) ==
    LET n == Counts(p, sampleInterval)
    IN IF Quo(n.hourCount, n.hoursPerDay) * 2 > maxQueryPoints
       THEN [p EXCEPT !.Granularity = "DailyAverage",
                      !.Aggregation = Aggregation(n.dayCount)]
       ELSE IF SamplesMissing(p, sampleStart)
       THEN [p EXCEPT !.Granularity = "HourlyAverage",
                      !.Aggregation = Aggregation(n.hourCount)]
       ELSE IF n.samplesPerHour = 0
       THEN [p EXCEPT !.Aggregation = 1]
       ELSE IF Quo(n.sampleCount, n.samplesPerHour) * 2 > maxQueryPoints
       THEN [p EXCEPT !.Granularity = "HourlyAverage",
                      !.Aggregation = Aggregation(n.hourCount)]
       ELSE [p EXCEPT !.Granularity = "IndividualSample",
                      !.Aggregation = Aggregation(n.sampleCount)]

Panics(p, sampleInterval, sampleStart) ==
    LET n == Counts(p, sampleInterval)
    IN /\ Quo(n.hourCount, n.hoursPerDay) * 2 <= maxQueryPoints
       /\ ~SamplesMissing(p, sampleStart)
       /\ n.samplesPerHour = 0

\* The call of handleQuery (main.go lines 170-174); request keeps its
\* arguments.
UpdateGranularityAndAggregation(sampleInterval, sampleStart) ==
    /\ queryErr = "none"
    /\ request = NoRequest
    /\ request' = [sampleInterval |-> sampleInterval,
                   sampleStart |-> sampleStart]
    /\ qp' = Planned(qp, sampleInterval, sampleStart)
    /\ queryErr' = IF Panics(qp, sampleInterval, sampleStart)
                   THEN "panic: integer divide by zero"
                   ELSE NoError
    /\ UNCHANGED <<storeVars, alertVars, response, results, fetchers,
                   chans, merger, out>>

PlannerNext ==
    \E sampleInterval \in SampleIntervals, sampleStart \in SampleStarts :
        UpdateGranularityAndAggregation(sampleInterval, sampleStart)

\* handleQuery has set Start and End (main.go lines 146-164); Granularity
\* and Aggregation have their zero values.
InitPlanner ==
    /\ InitReporter
    /\ InitDatastore(0)
    /\ sums = <<>>
    /\ it = <<>>
    /\ recording = "none"
    /\ summarized = NoRun
    /\ puts = <<>>
    /\ ReportIdle
    /\ AlertsIdle
    /\ qp \in [Start : {PlannedStart},
               End : {PlannedStart + d : d \in QueryDurations},
               Granularity : {"IndividualSample"},
               Aggregation : {0}]
    /\ results = <<>>
    /\ fetchers = <<>>
    /\ chans = <<>>
    /\ merger = [pc |-> "idle"]
    /\ out = [rows |-> <<>>, closed |-> FALSE]
    /\ queryErr = "none"

SpecPlanner == InitPlanner /\ [][PlannerNext]_vars

\* ---------------------------------------------------------------------
\* The alerts: Condition.active, getConditionStates, updateAlertState,
\* createAlertMessage and EvaluateConds (src/unnamed/part_008). Times are
\* counted in ticks of which Second make a second, and values in the same
\* fractions of one; 0 is the zero time.
\* ---------------------------------------------------------------------

\* time.Second, in ticks.
Second == 2

\* The largest Value of a condition and of a sample (two units).
MaxAlertValue == 4

\* The latest time of an evaluation.
MaxNow == 5

Ops == {"eq", "ne", "lt", "gt", "le", "ge", "ot"}

\* Conditions of the configuration, with an operator that is none.
Conditions == [sn : Series, Op : Ops \cup {"xx"}, Value : 1..MaxAlertValue]

\* Line 41: the Value is formatted with one decimal, here in tenths.
id(c) == <<c.sn, c.Op, (c.Value * 10 + Second \div 2) \div Second>>

\* Line 60, time.Duration(c.Value)*time.Second: the conversion of the
\* float32 to an integer drops the fraction.
Duration(v) == (v \div Second) * Second

\* Lines 44-64. s is <<>> for nil.
active(c, s, now) ==
    CASE c.Op = "eq" ->
           [active |-> s # <<>> /\ s[1].v = c.Value, err |-> NoError]
      [] c.Op = "ne" ->
           [active |-> s # <<>> /\ s[1].v # c.Value, err |-> NoError]
      [] c.Op = "lt" ->
           [active |-> s # <<>> /\ s[1].v < c.Value, err |-> NoError]
      [] c.Op = "gt" ->
           [active |-> s # <<>> /\ s[1].v > c.Value, err |-> NoError]
      [] c.Op = "le" ->
           [active |-> s # <<>> /\ s[1].v <= c.Value, err |-> NoError]
      [] c.Op = "ge" ->
           [active |-> s # <<>> /\ s[1].v >= c.Value, err |-> NoError]
      [] c.Op = "ot" ->
           [active |-> s = <<>> \/ now - s[1].ts > Duration(c.Value),
            err |-> NoError]
      [] OTHER -> [active |-> FALSE, err |-> "Invalid condition"]

\* Lines 68-86: the condition with the age of the sample in whole seconds
\* or with its value.
msg(c, s, now) ==
    [cond |-> id(c),
     missing |-> s = <<>>,
     val |-> IF s = <<>> THEN 0
             ELSE IF c.Op = "ot" THEN Quo(now - s[1].ts, Second)
             ELSE s[1].v]

\* Lines 182-199. samples: series -> <<>> or <<sample>>.
getConditionStates(cs, smp, now) ==
    IF \E i \in 1..Len(cs) : active(cs[i], smp[cs[i].sn], now).err # NoError
    THEN [states |-> <<>>, err |-> "Invalid condition"]
    ELSE [states |->
             [i \in 1..Len(cs) |->
                 [Id |-> id(cs[i]),
                  ActiveTime |->
                      IF active(cs[i], smp[cs[i].sn], now).active
                      THEN now ELSE 0,
                  Msg |-> msg(cs[i], smp[cs[i].sn], now)]],
          err |-> NoError]

\* The samples that getConditionStates is given.
AlertValues == 1..MaxAlertValue

SampleMaps ==
    {[sn \in Series |-> IF sn = "a" THEN x ELSE <<>>] :
        x \in {<<>>} \cup {<<s>> : s \in [ts : 1..2, sn : {"a"},
                                         v : AlertValues]}}

\* getConditionStates on its own, for one condition.
GetConditionStatesCall(smp, now) ==
    LET r == getConditionStates(conds, smp, now)
    IN /\ evaluation = NoEvaluation
       /\ evaluation' = [now |-> now, samples |-> smp, states |-> r.states,
                         err |-> r.err]
       /\ UNCHANGED <<storeVars, reportVars, queryVars, conds, alertState>>

ActiveNext ==
    \E smp \in SampleMaps, now \in 1..MaxNow :
        GetConditionStatesCall(smp, now)

InitActive ==
    /\ InitReporter
    /\ InitDatastore(0)
    /\ sums = <<>>
    /\ it = <<>>
    /\ recording = "none"
    /\ summarized = NoRun
    /\ puts = <<>>
    /\ ReportIdle
    /\ QueryIdle
    /\ conds \in {<<c>> : c \in {x \in Conditions : x.sn = "a"}}
    /\ alertState = NoAlertState
    /\ evaluation = NoEvaluation

SpecActive == InitActive /\ [][ActiveNext]_vars

\* The conditions of the evaluated configurations.
AlertConditions ==
    {[sn |-> "a", Op |-> "gt", Value |-> 2],
     [sn |-> "a", Op |-> "ot", Value |-> 2],
     [sn |-> "b", Op |-> "lt", Value |-> 3],
     [sn |-> "b", Op |-> "xx", Value |-> 1]}

\* The time of the last evaluation.
MaxEvalTime == 4

\* The most conditions of a configuration.
MaxConds == 2

\* The samples that are written between the evaluations.
AlertSamples == [ts : 1..2, sn : Series, v : {1, MaxAlertValue}]

\* Lines 147 and 154-161: the query of the most recent sample of a series;
\* <<>> when there is none.
LatestSample(sn) ==
    LET S == {s \in sampleEntities : s.sn = sn}
    IN IF S = {} THEN <<>>
       ELSE <<CHOOSE s \in S : \A o \in S : o.ts <= s.ts>>

\* Lines 138-141: the series of the conditions.
Needed == {conds[i].sn : i \in 1..Len(conds)}

\* Mutant: a failed query counts as a query without result.
FetchFailureIgnored(failed) == FALSE

\* Lines 155-156 and 168-171: the query of some needed series failed.
FetchFailed(failed) == failed \cap Needed # {}

\* Lines 135-178, when no query fails.
getSamplesForConditions ==
    [sn \in Series |-> IF sn \in Needed THEN LatestSample(sn) ELSE <<>>]

\* Lines 207-212: the stored state of an id; the last one of the list when
\* there are several.
StoredIds(as) ==
    {as.ActiveConditions[i].Id : i \in 1..Len(as.ActiveConditions)}

Stored(as, sid) ==
    LET I == {i \in 1..Len(as.ActiveConditions) :
                 as.ActiveConditions[i].Id = sid}
    IN as.ActiveConditions[CHOOSE i \in I : \A j \in I : j <= i]

\* The states of ns that meet Test, each changed by Change, in order.
Selected(ns, Test(_), Change(_)) ==
    LET sel == SelectSeq(ns, Test)
    IN [i \in 1..Len(sel) |-> Change(sel[i])]

\* Mutant: a continuing condition gets the time of this evaluation.
ActiveTimeNow(as, s, now) == now

\* Lines 219 and 227: s.ActiveTime = os.ActiveTime.
ActiveTimeCarried(as, s, now) == Stored(as, s.Id).ActiveTime

\* Mutant: the started conditions are added to the stored ones and nothing
\* is taken away.
SavedOnTop(as, start, cont) == as.ActiveConditions \o start

\* Line 236: as.ActiveConditions = append(start, cont...).
Saved(as, start, cont) == start \o cont

\* Lines 214-242 of updateAlertState: start, cont, end and the state to
\* save.
Reconciled(as, ns, now) ==
    LET Starting(s) == s.ActiveTime # 0 /\ s.Id \notin StoredIds(as)
        Continuing(s) == s.ActiveTime # 0 /\ s.Id \in StoredIds(as)
        Ending(s) == s.ActiveTime = 0 /\ s.Id \in StoredIds(as)
        AtNow(s) == [s EXCEPT !.ActiveTime = now]
        Carried(s) ==
            [s EXCEPT !.ActiveTime = ActiveTimeCarried(as, s, now)]
        start == Selected(ns, Starting, AtNow)
        cont == Selected(ns, Continuing, Carried)
        end == Selected(ns, Ending, Carried)
    IN [start |-> start, cont |-> cont, end |-> end,
        as |-> [ActiveConditions |-> Saved(as, start, cont),
                LastEvalTime |-> now]]

\* Mutant: a message also when conditions only continue.
NothingAtAll(start, cont, end) ==
    Len(start) = 0 /\ Len(end) = 0 /\ Len(cont) = 0

\* Line 247: nothing has changed.
NothingChanged(start, cont, end) == Len(start) = 0 /\ Len(end) = 0

\* The Msg fields of states (lines 251-256).
Msgs(states) == [i \in 1..Len(states) |-> states[i].Msg]

\* Lines 245-277: <<>> for nil, else the message with its sections.
createAlertMessage(start, cont, end) ==
    IF NothingChanged(start, cont, end)
    THEN <<>>
    ELSE <<[Subject |-> "Alerts updated",
            Body |->
                (IF Len(start) > 0
                 THEN <<[heading |-> "New alerts:", msgs |-> Msgs(start)]>>
                 ELSE <<>>)
                \o (IF Len(end) > 0
                    THEN <<[heading |-> "Ended alerts:",
                            msgs |-> Msgs(end)]>>
                    ELSE <<>>)
                \o (IF Len(cont) > 0
                    THEN <<[heading |-> "Continuing alerts:",
                            msgs |-> Msgs(cont)]>>
                    ELSE <<>>)]>>

\* An evaluation that returned err before it sent anything.
FailedEvaluation(now, failed, smp, states, err) ==
    [now |-> now, failed |-> failed, samples |-> smp, states |-> states,
     stored |-> {}, start |-> <<>>, cont |-> <<>>, end |-> <<>>,
     msg |-> <<>>, err |-> err]

\* What fails in an evaluation: nothing, the datastore.Get or the
\* datastore.Put of updateAlertState, or mail.Send.
Outcomes == {"ok", "get", "put", "send"}

\* Lines 108-130 with all that they call. failed: the series of which the
\* query fails.
EvaluateConds(now, failed, outcome) ==
    LET smp == getSamplesForConditions
        r == getConditionStates(conds, smp, now)
        u == Reconciled(alertState, r.states, now)
        m == createAlertMessage(u.start, u.cont, u.end)
    IN /\ now > evaluation.now
       /\ IF FetchFailed(failed)
            THEN /\ evaluation' = FailedEvaluation(now, failed, <<>>, <<>>,
                                                   FetchError)
                 /\ UNCHANGED alertState
            ELSE IF r.err # NoError
            THEN /\ evaluation' = FailedEvaluation(now, failed, smp, <<>>,
                                                   r.err)
                 /\ UNCHANGED alertState
            ELSE IF outcome = "get"
            THEN /\ evaluation' = FailedEvaluation(now, failed, smp,
                                                   r.states, "get failed")
                 /\ UNCHANGED alertState
            ELSE IF outcome = "put"
            THEN /\ evaluation' = FailedEvaluation(now, failed, smp,
                                                   r.states, "put failed")
                 /\ UNCHANGED alertState
            ELSE /\ alertState' = u.as
                 /\ evaluation' =
                        [now |-> now, failed |-> failed, samples |-> smp,
                         states |-> r.states,
                         stored |-> StoredIds(alertState),
                         start |-> u.start,
                         cont |-> u.cont, end |-> u.end, msg |-> m,
                         err |-> IF m # <<>> /\ outcome = "send"
                                 THEN "send failed" ELSE NoError]
       /\ UNCHANGED <<storeVars, reportVars, queryVars, conds>>

AlertNext ==
    \/ \E now \in 1..MaxEvalTime, failed \in SUBSET Series,
          outcome \in Outcomes :
           EvaluateConds(now, failed, outcome)
    \/ \E s \in AlertSamples, putOk \in BOOLEAN :
           WriteSamples({s}, putOk, IF putOk THEN {s} ELSE {})

InitAlert ==
    /\ InitReporter
    /\ InitDatastore(0)
    /\ sums = <<>>
    /\ it = <<>>
    /\ recording = "none"
    /\ summarized = NoRun
    /\ puts = <<>>
    /\ ReportIdle
    /\ QueryIdle
    /\ conds \in UNION {[1..n -> AlertConditions] : n \in 1..MaxConds}
    /\ alertState = NoAlertState
    /\ evaluation = NoEvaluation

SpecAlert == InitAlert /\ [][AlertNext]_vars

(***************************************************************************)
(* A new configuration is deployed between two evaluations: the server     *)
(* passes cfg.AlertConditions to EvaluateConds (main.go line 126), and the *)
(* AlertState entity outlives the configuration that produced it.  Here    *)
(* the new configuration lacks the i-th condition of the old one.          *)
(***************************************************************************)
RemoveCondition(i) ==
    /\ i \in 1..Len(conds)
    /\ conds' = SubSeq(conds, 1, i - 1) \o SubSeq(conds, i + 1, Len(conds))
    /\ UNCHANGED <<storeVars, reportVars, queryVars, alertState, evaluation>>

\* Evaluations that get as far as saving the state, sample writes that
\* succeed, and changes of the configuration.
ReconfiguredNext ==
    \/ \E now \in 1..MaxEvalTime, outcome \in {"ok", "send"} :
           EvaluateConds(now, {}, outcome)
    \/ \E s \in AlertSamples : WriteSamples({s}, TRUE, {s})
    \/ \E i \in 1..MaxConds : RemoveCondition(i)

SpecReconfigured == InitAlert /\ [][ReconfiguredNext]_vars

\* C21: a request that is not a POST is answered 405; outside the dev
\* server a POST whose s is not the digest of "d|secret" is answered 400; a
\* POST with a line that is no sample is answered 400; none of the three
\* writes a sample, whatever other lines the request holds.
C21_ReportAllOrNothing ==
    [][LET r == request'
       IN /\ r.method = "GET" =>
                response' = 405 /\ sampleEntities' = sampleEntities
          /\ (/\ r.method = "POST"
              /\ ~r.dev
              /\ r.s # HashStringWithSHA256(Signed(r.d, ReportSecret))) =>
                response' = 400 /\ sampleEntities' = sampleEntities
          /\ (/\ r.method = "POST"
              /\ \E i \in 1..Len(r.d) : r.d[i] \in MalformedLines) =>
                response' = 400 /\ sampleEntities' = sampleEntities]_vars

\* A signed POST with a sample line and a line that is no sample has been
\* answered 400 and its sample is not stored, while an earlier report is.
C21_Witness ==
    /\ request.method = "POST"
    /\ request.s = HashStringWithSHA256(Signed(request.d, ReportSecret))
    /\ \E i \in 1..Len(request.d) : request.d[i] \in MalformedLines
    /\ \E i \in 1..Len(request.d) :
          /\ request.d[i] \in FourFieldLines
          /\ request.d[i] \notin sampleEntities
    /\ response = 400
    /\ sampleEntities # {}

\* The timestamps of the points that line i sent to the merger.
SentTimes(i) == {chans[i].sent[j].timestamp : j \in 1..Len(chans[i].sent)}

\* Every stream that the merger read is strictly ascending and closed.
StreamsAscendingAndClosed ==
    \A i \in QueryLines : ByTimestamp(chans[i].sent) /\ chans[i].closed

\* C22: when the streams are strictly ascending and all closed and the
\* merger has returned, the rows are strictly ascending by timestamp, there
\* is exactly one row per timestamp of any stream, cell i of a row holds the
\* value of stream i's point at the row's timestamp and NaN when it has
\* none, and the output is closed; until then the rows emitted so far are
\* strictly ascending and hold only points that were sent.
C22_OrderedMerge ==
    LET rows == out.rows
        Cell(r, i) ==
            IF r.timestamp \in SentTimes(i)
            THEN \E j \in 1..Len(chans[i].sent) :
                    /\ chans[i].sent[j].timestamp = r.timestamp
                    /\ chans[i].sent[j].value = r.values[i]
            ELSE r.values[i] = NaN
    IN (\A i \in QueryLines : \A j \in 1..Len(chans[i].sent) :
            ~IsError(chans[i].sent[j])) =>
         /\ ByTimestamp(rows)
         /\ \A n \in 1..Len(rows) :
              /\ rows[n].err = NoError
              /\ \E i \in QueryLines : rows[n].timestamp \in SentTimes(i)
              /\ \A i \in QueryLines : Cell(rows[n], i)
         /\ (StreamsAscendingAndClosed /\ merger.pc = "done") =>
              /\ {rows[n].timestamp : n \in 1..Len(rows)} =
                    UNION {SentTimes(i) : i \in QueryLines}
              /\ out.closed

\* Two streams that share one timestamp and differ in another have been
\* merged into three rows or more, one of them with a NaN cell.
C22_Witness ==
    /\ StreamsAscendingAndClosed
    /\ merger.pc = "done"
    /\ SentTimes(1) \cap SentTimes(2) # {}
    /\ SentTimes(1) \ SentTimes(2) # {}
    /\ SentTimes(2) \ SentTimes(1) # {}
    /\ Len(out.rows) >= 3
    /\ \E n \in 1..Len(out.rows) : out.rows[n].values[2] = NaN
    /\ \E n \in 1..Len(out.rows) : out.rows[n].values[1] = NaN

\* Some fetcher has delivered an error point to the merger.
ErrorDelivered ==
    \E i \in QueryLines : \E j \in 1..Len(chans[i].sent) :
        chans[i].sent[j].err # NoError

ErrorRows == {n \in 1..Len(out.rows) : out.rows[n].err # NoError}

\* C23: from the step in which a fetcher delivers an error point, the
\* output holds exactly one error row, which is its last row and carries
\* that error, the output is closed and DoQuery has returned the error; the
\* rows emitted before stay as they were and no row is added afterwards.
C23_ErrorPropagation ==
    [][/\ ErrorDelivered' =>
            /\ ErrorRows' = {Len(out'.rows)}
            /\ out'.rows[Len(out'.rows)].err = FetchError
            /\ out'.closed
            /\ queryErr' = FetchError
       /\ Len(out'.rows) >= Len(out.rows)
       /\ SubSeq(out'.rows, 1, Len(out.rows)) = out.rows
       /\ ErrorDelivered => out' = out /\ queryErr' = queryErr
       /\ ~ErrorDelivered' => ErrorRows' = {}]_vars

\* The error came after a row was emitted, and the other fetcher is left
\* with a point that nobody receives.
C23_Witness ==
    /\ ErrorDelivered
    /\ Len(out.rows) = 2
    /\ out.rows[1].err = NoError
    /\ queryErr = FetchError
    /\ \E i \in QueryLines : fetchers[i].pc = "send"

\* The sum of the values of a sequence of points, as a number.
RECURSIVE SumOfValues(_)
SumOfValues(points) ==
    IF points = <<>>
    THEN 0
    ELSE points[1].value + SumOfValues(Tail(points))

\* Group j of the points that line i's fetcher read, k to a group.
GroupOf(i, j, k) ==
    SubSeq(results[i], (j - 1) * k + 1, Min(j * k, Len(results[i])))

\* C26: a fetcher that has read its n points and closed its channel has,
\* with aggregation k > 1, sent ceil(n/k) points, the j-th of them with the
\* mean value (as a float32) of the j-th group of k consecutive points and
\* the timestamp midway between the group's first and last timestamps, and,
\* with k <= 1, the n points unchanged.
C26_FetcherAggregation ==
    \A i \in QueryLines :
        LET n == Len(results[i])
            k == qp.Aggregation
            sent == chans[i].sent
        IN chans[i].closed =>
             IF k > 1
             THEN /\ Len(sent) = (n + k - 1) \div k
                  /\ \A j \in 1..Len(sent) :
                       LET g == GroupOf(i, j, k)
                       IN /\ sent[j].value = Round(SumOfValues(g), Len(g))
                          /\ 2 * sent[j].timestamp =
                                g[1].timestamp + g[Len(g)].timestamp
                          /\ sent[j].err = NoError
             ELSE sent = results[i]

\* With aggregation 2 a fetcher has read three points and sent two: the
\* mean of two different values and the lone third point.
C26_Witness ==
    \E i \in QueryLines :
        /\ chans[i].closed
        /\ qp.Aggregation = 2
        /\ Len(results[i]) = 3
        /\ results[i][1].value # results[i][2].value
        /\ Len(chans[i].sent) = 2
        /\ chans[i].sent[2] = results[i][3]

\* The planner has returned.
PlannerReturned == request # NoRequest /\ queryErr = NoError

\* The count of the chosen granularity.
ChosenCount ==
    LET n == Counts(qp, request.sampleInterval)
    IN CASE qp.Granularity = "DailyAverage" -> n.dayCount
         [] qp.Granularity = "HourlyAverage" -> n.hourCount
         [] qp.Granularity = "IndividualSample" -> n.sampleCount

\* C24: when the planner has returned for Start <= End, the count of the
\* chosen granularity divided by the chosen aggregation is at most 100.
C24_PointBound ==
    (PlannerReturned /\ qp.Start <= qp.End) =>
        Quo(ChosenCount, qp.Aggregation) <= maxQueryPoints

\* What the planner does keep: fewer than twice maxQueryPoints points.
C24_BelowTwiceTheBound ==
    (PlannerReturned /\ qp.Start <= qp.End) =>
        Quo(ChosenCount, qp.Aggregation) < 2 * maxQueryPoints

\* C25: when the planner has returned, DailyAverage is chosen iff
\* hourCount/24*2 > 100; otherwise HourlyAverage iff samples are missing or
\* sampleCount/samplesPerHour*2 > 100; otherwise IndividualSample; and the
\* aggregation is max(1, count/100) for the count of the chosen
\* granularity.
C25_DecisionTable ==
    PlannerReturned =>
        LET n == Counts(qp, request.sampleInterval)
            daily == Quo(n.hourCount, 24) * 2 > 100
            missing == /\ request.sampleStart # 0
                       /\ qp.Start < request.sampleStart
            hourly == \/ missing
                      \/ Quo(n.sampleCount, n.samplesPerHour) * 2 > 100
        IN /\ qp.Granularity = "DailyAverage" <=> daily
           /\ ~daily => (qp.Granularity = "HourlyAverage" <=> hourly)
           /\ (~daily /\ ~hourly) => qp.Granularity = "IndividualSample"
           /\ qp.Aggregation = Max(1, Quo(ChosenCount, 100))

\* HourlyAverage has been chosen for the number of samples alone, with an
\* aggregation above one.
C25_Witness ==
    /\ PlannerReturned
    /\ request.sampleStart = 0
    /\ qp.Granularity = "HourlyAverage"
    /\ qp.Aggregation > 1

\* The comparison "v op value" of the six arithmetic operators.
Holds(v, op, value) ==
    CASE op = "eq" -> v = value
      [] op = "ne" -> v # value
      [] op = "lt" -> v < value
      [] op = "gt" -> v > value
      [] op = "le" -> v <= value
      [] op = "ge" -> v >= value

\* C27: for eq, ne, lt, gt, le and ge the condition is active iff there is
\* a sample and "sample.value op value" holds; for ot it is active iff the
\* sample is missing or now - sample.timestamp is strictly greater than
\* value seconds; any other operator makes the evaluation fail.
C27_ConditionActivation ==
    evaluation # NoEvaluation =>
        LET c == conds[1]
            s == evaluation.samples[c.sn]
            isActive == evaluation.states[1].ActiveTime # 0
        IN CASE c.Op = "ot" ->
                  /\ evaluation.err = NoError
                  /\ isActive <=>
                       (s = <<>> \/ evaluation.now - s[1].ts > c.Value)
             [] c.Op \in Ops \ {"ot"} ->
                  /\ evaluation.err = NoError
                  /\ isActive <=>
                       (s # <<>> /\ Holds(s[1].v, c.Op, c.Value))
             [] OTHER -> evaluation.err # NoError

\* The same with value seconds taken as the whole seconds of value, which
\* is what the code compares with.
C27_WholeSeconds ==
    evaluation # NoEvaluation =>
        LET c == conds[1]
            s == evaluation.samples[c.sn]
            isActive == evaluation.states[1].ActiveTime # 0
        IN CASE c.Op = "ot" ->
                  /\ evaluation.err = NoError
                  /\ isActive <=>
                       \/ s = <<>>
                       \/ evaluation.now - s[1].ts
                             > (c.Value \div Second) * Second
             [] c.Op \in Ops \ {"ot"} ->
                  /\ evaluation.err = NoError
                  /\ isActive <=>
                       (s # <<>> /\ Holds(s[1].v, c.Op, c.Value))
             [] OTHER -> evaluation.err # NoError

\* The step is an EvaluateConds call that got as far as saving the state.
Reconciles ==
    /\ evaluation' # evaluation
    /\ evaluation'.err \in {NoError, "send failed"}

\* The ids of a list of condition states.
IdsOf(states) == {states[i].Id : i \in 1..Len(states)}

\* C28: in every evaluation that saves, starting holds the conditions that
\* are active now and whose id is not stored, with active time now;
\* continuing those active now whose id is stored, with the stored active
\* time; ending those inactive now whose id is stored; the three are
\* disjoint; and the AlertState saved is starting followed by continuing
\* with last_eval_time = now.
C28_Reconciliation ==
    [][Reconciles =>
        LET e == evaluation'
            ns == Range(e.states)
            old == Range(alertState.ActiveConditions)
            oldIds == IdsOf(alertState.ActiveConditions)
            TimeOf(sid) == (CHOOSE o \in old : o.Id = sid).ActiveTime
        IN /\ Range(e.start) =
                 {[s EXCEPT !.ActiveTime = e.now] :
                     s \in {x \in ns : x.ActiveTime # 0 /\ x.Id \notin oldIds}}
           /\ Range(e.cont) =
                 {[s EXCEPT !.ActiveTime = TimeOf(s.Id)] :
                     s \in {x \in ns : x.ActiveTime # 0 /\ x.Id \in oldIds}}
           /\ Range(e.end) =
                 {[s EXCEPT !.ActiveTime = TimeOf(s.Id)] :
                     s \in {x \in ns : x.ActiveTime = 0 /\ x.Id \in oldIds}}
           /\ IdsOf(e.start) \cap IdsOf(e.cont) = {}
           /\ IdsOf(e.start) \cap IdsOf(e.end) = {}
           /\ IdsOf(e.cont) \cap IdsOf(e.end) = {}
           /\ \A s \in Range(e.cont) : s.ActiveTime < e.now
           /\ alertState' = [ActiveConditions |-> e.start \o e.cont,
                             LastEvalTime |-> e.now]]_vars

\* One condition starts while another continues with the active time of
\* an earlier evaluation.
C28_Witness ==
    /\ evaluation.now > 1
    /\ evaluation.err = NoError
    /\ Len(evaluation.start) = 1
    /\ Len(evaluation.cont) = 1
    /\ evaluation.cont[1].ActiveTime < evaluation.now
    /\ Len(alertState.ActiveConditions) = 2

\* C29: an evaluation sends a message exactly when it got as far as saving
\* the state and some condition is active now whose id was not stored, or
\* inactive now whose id was stored; an evaluation in which conditions only
\* continue, or nothing is active, sends none.
C29_NotificationRule ==
    [][evaluation' # evaluation =>
        LET e == evaluation'
            ns == Range(e.states)
            oldIds == IdsOf(alertState.ActiveConditions)
            starts == \E s \in ns : s.ActiveTime # 0 /\ s.Id \notin oldIds
            ends == \E s \in ns : s.ActiveTime = 0 /\ s.Id \in oldIds
        IN /\ e.msg # <<>> <=>
                 (e.err \in {NoError, "send failed"} /\ (starts \/ ends))
           /\ e.msg # <<>> <=> (Len(e.start) + Len(e.end) > 0)]_vars

\* An evaluation in which a condition only continues has sent nothing.
C29_Witness ==
    /\ evaluation.now > 1
    /\ evaluation.err = NoError
    /\ Len(evaluation.cont) = 1
    /\ Len(evaluation.start) = 0
    /\ Len(evaluation.end) = 0
    /\ evaluation.msg = <<>>

\* C30: an evaluation in which the query of the latest sample of some
\* series of the conditions fails returns that error, leaves the stored
\* AlertState as it was and sends no message.
C30_FetchFailure ==
    [][(/\ evaluation' # evaluation
        /\ \E i \in 1..Len(conds) : conds[i].sn \in evaluation'.failed) =>
          /\ evaluation'.err = FetchError
          /\ alertState' = alertState
          /\ evaluation'.msg = <<>>]_vars

\* The query of one of two series failed while a condition on the other
\* would have started, and a state is stored.
C30_Witness ==
    /\ evaluation.now > 0
    /\ evaluation.err = FetchError
    /\ evaluation.failed = {"b"}
    /\ Len(conds) = 2
    /\ conds[1].sn = "a"
    /\ conds[1].Op = "ot"
    /\ alertState.ActiveConditions = <<>>
    /\ alertState.LastEvalTime = 0

(***************************************************************************)
(* Claims about the reporter, second group.                                *)
(***************************************************************************)
\* The samples held in memory by the reporter: the queue followed by the
\* unsent rest of the worker's snapshot.
InMemory == queuedSamples \o samples

\* s holds no sample twice.
NoDuplicates(s) == \A i \in 1..Len(s) : \A j \in 1..Len(s) : s[i] = s[j] => i = j

\* C31: reporter conservation.  As long as the reporter process lives,
\* every sample accepted by reportSamples that no POST answered with 200
\* has covered is in exactly one of r.queuedSamples and the worker's local
\* slice, once, and no covered sample is in either.  The samples a process
\* has accepted are all samples for the first process, and for a later one
\* as long as every earlier process handed its queue over in the file.
C31_Conservation ==
    ((restarts = 0 \/ ~stopWriteEverFailed) /\ wPc # "dead") =>
        /\ Range(InMemory) = Range(Unaccepted)
        /\ NoDuplicates(InMemory)

\* The worker holds the unsent rest of a snapshot after a failed POST while
\* a producer has enqueued more, and a part of the snapshot was delivered.
C31_Witness ==
    /\ restarts = 0
    /\ wPc = "update"
    /\ gotError
    /\ samples # <<>>
    /\ queuedSamples # <<>>
    /\ acked # {}

\* stop() is blocked for good: it waits in triggerRetryTimeout (line 81) to
\* send into the full channel, while the worker, the only receiver, has
\* left processSamples.
StopStuck ==
    /\ stopPc = "trigger"
    /\ wPc = "exited"
    /\ retryTimeout = RetryTimeoutCap

\* C32: stop() terminates.  In the form a finite run refutes: after any
\* earlier triggerRetryTimeout calls and retry timers, a call of stop()
\* never reaches the state in which it waits for ever, the worker having
\* exited and nobody being left to receive from r.retryTimeout.
C32_StopTerminates == ~StopStuck

\* The step rewrites the backing file or fails trying to.
RewriteAttempted == fileStamp' # fileStamp \/ writeFailures' # writeFailures

\* C33: persist before backoff.  In every iteration of the worker the
\* backing file is rewritten (or the rewrite is tried and fails) iff
\* r.backingFileSamples differs from the queue as seen under the mutex,
\* before the worker goes to sleep; and while the worker sleeps after a
\* failed POST, the write having succeeded or not been needed, the file
\* exists and holds the queue as it was when the unsent samples were put
\* back: these samples first, and the queue has only grown since.
C33_PersistBeforeBackoff ==
    /\ [][(wPc = "write" /\ wPc' # "write") =>
            (RewriteAttempted <=> backingFileSamples # observed)]_vars
    /\ []((wPc = "sleep" /\ backingFileSamples = observed) =>
            /\ fileExists
            /\ file = observed
            /\ newBackingFileSamples = NilSamples
            /\ returned # <<>>
            /\ IsPrefix(returned, observed)
            /\ IsPrefix(observed, queuedSamples))

\* The worker sleeps after a failed POST; the file holds the returned
\* samples and what producers had enqueued during the POST, and more was
\* enqueued after the write.
C33_Witness ==
    /\ wPc = "sleep"
    /\ backingFileSamples = observed
    /\ file = observed
    /\ writeFailures = 0
    /\ Len(observed) > Len(returned)
    /\ Len(queuedSamples) > Len(observed)

\* Every sample answered with 200 so far was sent by the running process,
\* or by an earlier one that handed its queue over in the file.
OneLifetime == restarts = 0 \/ ~stopWriteEverFailed

\* C34: no re-send after acknowledgement.  Within one process lifetime a
\* request never carries a sample of an earlier request that was answered
\* with 200: neither the snapshot the worker is sending from nor a request
\* the server receives holds such a sample; and after a failed request
\* the worker puts back exactly the unsent rest of its snapshot, none of
\* whose samples was acknowledged, in front of the queue.
C34_NoResendAfterAck ==
    /\ []((OneLifetime /\ wPc = "send") => Range(samples) \cap acked = {})
    /\ [][(OneLifetime /\ postCount' = postCount + 1) =>
            Range(lastPost'.d) \cap acked = {}]_vars
    /\ [][(OneLifetime /\ wPc = "update" /\ wPc' = "write" /\ gotError) =>
            /\ returned' # <<>>
            /\ Range(returned') \cap acked = {}
            /\ queuedSamples' = returned' \o queuedSamples]_vars

\* The first batch of a snapshot was acknowledged, the second one failed
\* and the rest was put back.
C34_Witness ==
    /\ restarts = 0
    /\ wPc = "write"
    /\ gotError
    /\ returned # <<>>
    /\ acked # {}
    /\ \A a \in acked : \A x \in Range(returned) : a < x
    /\ postCount >= 2
    /\ ~lastPost.ok

\* A 2xx status.
Successful(status) == status \in 200..299

\* C35: success criterion of a POST.  Whenever the server has answered a
\* request, the worker goes on with the next batch (gotError stays false)
\* iff the status is a 2xx one; a transport error, a timeout or another
\* status sets gotError.
C35_Every2xxIsSuccess ==
    [][postCount' = postCount + 1 =>
         (gotError' <=> ~Successful(lastPost'.status))]_vars

\* What the code does: 200 alone is success.
C35_Only200IsSuccess ==
    [][postCount' = postCount + 1 =>
         /\ gotError' <=> lastPost'.status # StatusOK
         /\ gotError' => wPc' = "update"
         /\ ~gotError' => samples' = Drop(samples, Len(lastPost'.d))]_vars

(***************************************************************************)
(* Claims about the server, second group.                                  *)
(***************************************************************************)
\* The fetcher of line i waits at "ch <- ..." (lines 151, 155, 161, 165).
BlockedOnSend(i) == fetchers[i].pc \in {"send", "sendLast", "sendErr"}

\* C36: query tasks terminate.  In the form a finite run refutes: once
\* DoQuery has returned and the merger is gone, no fetcher waits to send
\* on its unbuffered channel, from which nobody will ever receive.
C36_QueryTasksTerminate ==
    (queryErr # "none" /\ merger.pc = "done") =>
        \A i \in QueryLines : ~BlockedOnSend(i)

\* What holds: when DoQuery has returned nil, every fetcher has closed its
\* channel and left, and the merger has returned.
C36_NormalReturn ==
    queryErr = NoError =>
        /\ merger.pc = "done"
        /\ \A i \in QueryLines : fetchers[i].pc = "exit" /\ chans[i].closed

\* The planner has returned normally with a granularity and an
\* aggregation of at least one.
PlannedNormally ==
    /\ queryErr = NoError
    /\ qp.Granularity \in {"IndividualSample", "HourlyAverage", "DailyAverage"}
    /\ qp.Aggregation >= 1

\* C37: the planner is total.  Every call of
\* UpdateGranularityAndAggregation with Start <= End, any sampleStart and
\* a positive sampleInterval, intervals of more than an hour included,
\* returns normally with a granularity and an aggregation >= 1.
C37_PlannerTotal == request # NoRequest => PlannedNormally

\* What holds: the calls with an interval of at most an hour return
\* normally.
C37_TotalUpToAnHour ==
    (request # NoRequest /\ request.sampleInterval <= Hour) => PlannedNormally

\* The ids of the condition states that are active.
ActiveIdsOf(states) ==
    {states[i].Id : i \in {j \in 1..Len(states) : states[j].ActiveTime # 0}}

\* The step is an evaluation that saves the state, the one before it having
\* saved the state and failed to send its message, and the conditions are
\* active and inactive as they were then.
AfterFailedSend ==
    /\ evaluation.now > 0
    /\ evaluation.err = "send failed"
    /\ evaluation' # evaluation
    /\ evaluation'.err \in {NoError, "send failed"}
    /\ ActiveIdsOf(evaluation'.states) = ActiveIdsOf(evaluation.states)

\* C38: alert transitions are not lost when mail fails.  The evaluation
\* that follows one whose message could not be sent, the conditions being
\* as they were, has the start and end transitions of that evaluation in
\* its own starting and ending lists, and so in its message.
C38_TransitionsNotLost ==
    [][AfterFailedSend =>
         /\ IdsOf(evaluation.start) \subseteq IdsOf(evaluation'.start)
         /\ IdsOf(evaluation.end) \subseteq IdsOf(evaluation'.end)]_vars

\* What the code does: the state is saved before the message is sent, so
\* in the evaluation that follows the started conditions continue, the
\* ended ones are unknown, and no message is made.
C38_TransitionsLost ==
    [][AfterFailedSend =>
         /\ IdsOf(evaluation.start) \subseteq IdsOf(evaluation'.cont)
         /\ evaluation'.start = <<>>
         /\ evaluation'.end = <<>>
         /\ evaluation'.msg = <<>>]_vars

\* The ids that the last evaluation found stored and that are not among
\* its condition states: conditions that have left the configuration.
Absent == evaluation.stored \ IdsOf(evaluation.states)

\* The conditions that a message names.
Named(m) ==
    UNION {{m[1].Body[k].msgs[j].cond : j \in 1..Len(m[1].Body[k].msgs)} :
              k \in 1..Len(m[1].Body)}

\* C39: after an evaluation that saved the state, a condition that was
\* stored as active and whose id is not among the condition states of the
\* evaluation is in none of starting, continuing and ending, is no longer
\* in AlertState, and the message, if there is one, does not name it.
C39_RemovedConditionDropped ==
    (evaluation.now > 0 /\ evaluation.err \in {NoError, "send failed"}) =>
        \A x \in Absent :
            /\ x \notin IdsOf(evaluation.start)
            /\ x \notin IdsOf(evaluation.cont)
            /\ x \notin IdsOf(evaluation.end)
            /\ x \notin StoredIds(alertState)
            /\ evaluation.msg # <<>> => x \notin Named(evaluation.msg)

\* An active condition was removed from the configuration; the next
\* evaluation dropped it while it reported the start of another.
C39_Witness ==
    /\ evaluation.now > 1
    /\ evaluation.err = NoError
    /\ Absent # {}
    /\ Len(evaluation.start) = 1
    /\ evaluation.msg # <<>>
    /\ Len(alertState.ActiveConditions) = 1

\* The test's case (alert_test.go lines 215-217): the only condition was
\* removed, and the evaluation of no condition at all empties AlertState
\* without a message.
C39_WitnessEmptied ==
    /\ evaluation.now > 1
    /\ evaluation.err = NoError
    /\ Absent # {}
    /\ conds = <<>>
    /\ evaluation.msg = <<>>
    /\ alertState.ActiveConditions = <<>>

\* The step is a delete batch that fails (lines 120-126).
DeleteFails == dlPc = "delete" /\ storeErrors' = storeErrors + 1

\* The step is a delete batch that succeeds.
DeleteSucceeds == dlPc = "delete" /\ storeErrors' = storeErrors

\* The step ends the DeleteSummarizedSamples call.
PurgeReturns == dlPc # "idle" /\ dlPc' = "idle"

\* The parts of C40 that do not depend on the number of failures allowed:
\* the count starts at zero, a successful batch that is not the last one
\* resets it and the loop queries again, and a failed batch that does not
\* end the call deletes nothing, adds one to the count and is retried by
\* querying again.
CountsConsecutiveFailures ==
    /\ (dlPc = "idle" /\ dlPc' # "idle") => errors' = 0
    /\ (DeleteSucceeds /\ ~PurgeReturns) => (errors' = 0 /\ dlPc' = "query")
    /\ DeleteSucceeds => Deleted = {s \in sampleEntities : KeyOf(s) \in keys}
    /\ (DeleteFails /\ ~PurgeReturns) =>
           /\ errors' = errors + 1
           /\ dlPc' = "query"
    /\ DeleteFails => sampleEntities' = sampleEntities

\* C40 as stated: the call aborts, returning the delete error, after
\* maxSummaryDeleteErrors (2) consecutive failed delete batches: the batch
\* whose failure is the second in a row ends the call.
C40_AbortsAfterTwoFailures ==
    [][/\ CountsConsecutiveFailures
       /\ DeleteFails =>
             (PurgeReturns <=> errors + 1 = maxSummaryDeleteErrors)]_vars

\* C40 amended: maxSummaryDeleteErrors (2) consecutive failures are borne
\* and retried; the call aborts with the delete error on the failure after
\* them, the third in a row, when the count exceeds the maximum.
C40_AbortsOnThirdFailure ==
    [][/\ CountsConsecutiveFailures
       /\ errors \in 0..maxSummaryDeleteErrors
       /\ DeleteFails =>
             (PurgeReturns <=> errors = maxSummaryDeleteErrors)]_vars

\* Two delete batches in a row have failed, the loop has queried again and
\* is about to delete, and the datastore may fail once more.
C40_Witness ==
    /\ dlPc = "delete"
    /\ errors = maxSummaryDeleteErrors
    /\ storeErrors < MaxStoreErrors

============================================================================
